---- MODULE Spec2Model ----
(***************************************************************************)
(* Model of the agent orchestration loop of computer_use_demo:             *)
(*   loop.py              sampling_loop, _maybe_filter_to_n_most_recent_   *)
(*                        images, _make_api_tool_result                    *)
(*   openrouter_client.py OpenrouterClient.Beta.Messages.create            *)
(*   tools/base.py        ToolResult, BaseTool.__call__, ToolCollection    *)
(*   tools/computer.py    ComputerTool.validate_params / execute           *)
(*   tools/edit.py        EditTool, FileHistory                            *)
(*   tools/browser.py     BrowserTool.validate_params / execute, click     *)
(*                                                                         *)
(* Python values are encoded as follows.                                   *)
(*   None / Optional[x]   the empty sequence <<>> / the sequence <<x>>     *)
(*   dict                 a record                                         *)
(*   message content      [kind |-> "str", str |-> s] for a string,        *)
(*                        [kind |-> "list", list |-> <<block, ...>>] for a *)
(*                        list of content blocks                           *)
(*   text block           [type |-> "text", text |-> s]                    *)
(*   image block          [type |-> "image_url", image_url |-> id]         *)
(***************************************************************************)
EXTENDS Integers, Sequences, FiniteSets, TLC

VARIABLES
    \* sampling_loop
    messages,                    \* the local variable messages (the history)
    only_n_most_recent_images,   \* the parameter of that name
    pc,                          \* position of the coroutine
    iteration,                   \* number of the current pass of `while True`
    sent_messages,               \* the messages argument of the latest create()
    call_failure,                \* how the latest create() failed, None if it did not
    response_params,             \* _response_to_params(response)
    block_index,                 \* position of content_block in response_params
    tool_result_content,         \* the local list of that name
    trace,                       \* callbacks and tool runs of the current pass, in order
    returned,                    \* Some(value returned by sampling_loop), None before
    raised,                      \* Some(class of the exception that left sampling_loop)
    \* a direct call of _maybe_filter_to_n_most_recent_images
    f_messages,                  \* argument messages
    f_keep,                      \* argument images_to_keep
    f_result,                    \* its return value
    f_pc,                        \* "input" before the call, "filtered" after it
    \* a direct call of the computer tool
    t_kwargs,                    \* the keyword arguments
    t_device_ok,                 \* do the pyautogui / pyperclip calls succeed?
    t_result,                    \* the ToolResult returned
    t_device_calls,              \* the device calls performed, in order
    t_pc,                        \* "input" before the call, "called" after it
    \* ComputerTool.__init__ and its CoordinateTranslator
    g_physical,                  \* <<physical_width, physical_height>>
    g_dpi,                       \* the monitor's dpi: dpi_scale = g_dpi / 96
    g_taskbar_offset,            \* work_rect.top
    g_target,                    \* <<target_width, target_height>>, None before __init__
    g_point,                     \* argument of api_to_screen
    g_screen,                    \* its return value
    g_api,                       \* screen_to_api of that value
    g_pc,                        \* "input", "built", "mapped", "returned"
    \* a call of take_screenshot
    s_sizes,                     \* encoded size of each compression level, in order
    s_evaluated,                 \* the levels whose encoder was run, in order
    s_chosen,                    \* index of the level whose encoding is returned
    s_pc,                        \* "input" before the call, "taken" after it
    \* a call of _smart_click
    i_target,                    \* <<x, y>>, the translated point
    i_boxes,                     \* bounding boxes of the contours, in contour order
    i_center,                    \* what find_icon_center returned
    i_click,                     \* where the pointer was moved to and clicked
    i_pc,                        \* "input" before the call, "clicked" after it
    \* a session of the edit tool on one path
    e_file,                      \* content of the file at the path, None while it does not exist
    e_history,                   \* FileHistory._history[path]
    e_log,                       \* the latest two calls, each with the state around it
    e_calls,                     \* number of calls made so far
    e_pending,                   \* specification variable: the contents an undo is still owed
    \* a type or scroll action of the computer tool, device call by device call
    d_kwargs,                    \* the keyword arguments of execute
    d_group_size,                \* config.computer.TYPING_GROUP_SIZE
    d_clipboard,                 \* what the clipboard holds
    d_original,                  \* what the clipboard held when the action started
    d_calls,                     \* the pyautogui / pyperclip calls that completed, in order
    d_result,                    \* the ToolResult that came back
    d_pc,                        \* "input" before the action, "done" after it
    \* a click request to the browser tool
    b_kwargs,                    \* the keyword arguments; None stands for a key that is not given
    b_page,                      \* what the page holds: is the text found, the selector unique, the element clickable
    b_accepted,                  \* did validate_params accept the request?
    b_located,                   \* how execute located the element: "selector", "href", "text", None if it did not
    b_result,                    \* the ToolResult that came back
    b_pc                         \* "input" before the call, "called" after it

lvars == <<messages, only_n_most_recent_images, pc, iteration, sent_messages,
           call_failure, response_params, block_index, tool_result_content,
           trace, returned, raised>>
fvars == <<f_messages, f_keep, f_result, f_pc>>
tvars == <<t_kwargs, t_device_ok, t_result, t_device_calls, t_pc>>
gvars == <<g_physical, g_dpi, g_taskbar_offset, g_target, g_point, g_screen,
           g_api, g_pc>>
svars == <<s_sizes, s_evaluated, s_chosen, s_pc>>
ivars == <<i_target, i_boxes, i_center, i_click, i_pc>>
evars == <<e_file, e_history, e_log, e_calls, e_pending>>
dvars == <<d_kwargs, d_group_size, d_clipboard, d_original, d_calls, d_result, d_pc>>
bvars == <<b_kwargs, b_page, b_accepted, b_located, b_result, b_pc>>
vars == <<lvars, fvars, tvars, gvars, svars, ivars, evars, dvars, bvars>>
notloop == <<fvars, tvars, gvars, svars, ivars, evars, dvars, bvars>>
notfilter == <<lvars, tvars, gvars, svars, ivars, evars, dvars, bvars>>
nottool == <<lvars, fvars, gvars, svars, ivars, evars, dvars, bvars>>
notgeometry == <<lvars, fvars, tvars, svars, ivars, evars, dvars, bvars>>
notscreenshot == <<lvars, fvars, tvars, gvars, ivars, evars, dvars, bvars>>
noticon == <<lvars, fvars, tvars, gvars, svars, evars, dvars, bvars>>
notedit == <<lvars, fvars, tvars, gvars, svars, ivars, dvars, bvars>>
notdevice == <<lvars, fvars, tvars, gvars, svars, ivars, evars, bvars>>
notbrowser == <<lvars, fvars, tvars, gvars, svars, ivars, evars, dvars>>

----------------------------------------------------------------------------
(* Bounds *)

MaxMessages == 3     \* messages of a history handed to the filter
MaxContent == 2      \* content blocks of one message
MaxKeep == 3         \* largest images_to_keep tried
MaxIterations == 3   \* passes of the sampling loop
MaxToolCalls == 2    \* tool calls the model makes in one run of the loop
MaxContours == 2     \* contours found around one click target
MaxEdits == 5        \* calls of the edit tool in one session
MaxRepeat == 2       \* largest repeat given to a type or scroll action

----------------------------------------------------------------------------
(* Python helpers *)

None == <<>>
Some(x) == <<x>>
IsNone(o) == o = <<>>
Val(o) == o[1]

Min(a, b) == IF a < b THEN a ELSE b

RECURSIVE Reverse(_)
Reverse(s) == IF s = <<>> THEN <<>> ELSE Append(Reverse(Tail(s)), Head(s))

RECURSIVE SeqsUpTo(_, _)
\* all sequences over S of length 0..n
SeqsUpTo(S, n) ==
    IF n = 0 THEN {<<>>}
    ELSE LET shorter == SeqsUpTo(S, n - 1)
         IN shorter \cup {Append(s, x) : s \in shorter, x \in S}

StrContent(s) == [kind |-> "str", str |-> s]
ListContent(l) == [kind |-> "list", list |-> l]
NoneContent == [kind |-> "none"]

\* bool(x) of an Optional[str], of an Optional[list], of an Optional[int]
TruthyStr(o) == ~IsNone(o) /\ Val(o) # ""
TruthyList(o) == ~IsNone(o) /\ Val(o) # <<>>
TruthyInt(o) == ~IsNone(o) /\ Val(o) # 0

\* loop.py:266-271  the image block built from a base64 payload
ImageBlock(base64_image) ==
    [type |-> "image_url",
     image_url |-> [url |-> "data:image/png;base64," \o base64_image]]

----------------------------------------------------------------------------
(* loop.py: _maybe_filter_to_n_most_recent_images *)

\* loop.py:192  isinstance(content, dict) and content.get("type") == "image_url"
IsImageBlock(content) == content.type = "image_url"

\* loop.py:193  if images_seen < images_to_keep
KeepImage_inclusive(images_seen, images_to_keep) == images_seen <= images_to_keep
KeepImage(images_seen, images_to_keep) == images_seen < images_to_keep

\* loop.py:179  if images_to_keep is None or images_to_keep <= 0: return messages
FilterDisabled_negative_only(images_to_keep) ==
    IsNone(images_to_keep) \/ Val(images_to_keep) < 0
FilterDisabled(images_to_keep) ==
    IsNone(images_to_keep) \/ Val(images_to_keep) <= 0

\* loop.py:202-205  the message appended in place of one whose content became empty
PlaceholderMessage ==
    [role |-> "user",
     content |-> ListContent(<<[type |-> "text", text |-> "ignore this"]>>)]

\* loop.py:201-205  else: new_messages.append({"role": "user", "content": [...]})
AppendForEmptied_drop(new_messages) == new_messages
AppendForEmptied(new_messages) == Append(new_messages, PlaceholderMessage)

\* loop.py:196-197  else: new_content.append(content)
KeepOther_only_first(new_content, content) ==
    IF new_content = <<>> THEN Append(new_content, content) ELSE new_content
KeepOther(new_content, content) == Append(new_content, content)

RECURSIVE FilterContent(_, _, _, _, _)
\* loop.py:190-197  the inner loop over message["content"], from block j on;
\* returns new_content and the updated images_seen
FilterContent(content, j, new_content, images_seen, images_to_keep) ==
    IF j > Len(content)
    THEN [new_content |-> new_content, images_seen |-> images_seen]
    ELSE IF IsImageBlock(content[j])
         THEN IF KeepImage(images_seen, images_to_keep)
              THEN FilterContent(content, j + 1, Append(new_content, content[j]),
                                 images_seen + 1, images_to_keep)
              ELSE FilterContent(content, j + 1, new_content,
                                 images_seen, images_to_keep)
         ELSE FilterContent(content, j + 1, KeepOther(new_content, content[j]),
                            images_seen, images_to_keep)

RECURSIVE FilterMessages(_, _, _, _, _)
\* loop.py:186-207  the outer loop over reversed(messages), from message i down
FilterMessages(history, i, new_messages, images_seen, images_to_keep) ==
    IF i = 0
    THEN new_messages
    ELSE LET message == history[i] IN
         IF message.content.kind = "list"
         THEN LET r == FilterContent(message.content.list, 1, <<>>,
                                     images_seen, images_to_keep)
              IN IF r.new_content # <<>>
                 THEN FilterMessages(history, i - 1,
                          Append(new_messages,
                                 [message EXCEPT !.content = ListContent(r.new_content)]),
                          r.images_seen, images_to_keep)
                 ELSE FilterMessages(history, i - 1,
                          AppendForEmptied(new_messages),
                          r.images_seen, images_to_keep)
         ELSE FilterMessages(history, i - 1, Append(new_messages, message),
                             images_seen, images_to_keep)

\* loop.py:164-209
MaybeFilterToNMostRecentImages(history, images_to_keep) ==
    IF FilterDisabled(images_to_keep)
    THEN history
    ELSE Reverse(FilterMessages(history, Len(history), <<>>, 0, Val(images_to_keep)))

----------------------------------------------------------------------------
(* tools/base.py: ToolResult *)

\* base.py:15-21
ToolResult(output, error, base64_image, system) ==
    [output |-> output, error |-> error, base64_image |-> base64_image,
     system |-> system]

ErrorResult(text) == ToolResult(None, Some(text), None, None)

\* base.py:24-26  is_success: return self.error is None
IsSuccess(result) == IsNone(result.error)

\* an exception: its class and str(e)
Exception(class, message) == [class |-> class, message |-> message]

\* exceptions.py:5-30 and the builtins: is class a subclass of ToolError?
IsToolError(class) ==
    class \in {"ToolError", "ValidationError", "ExecutionError",
               "FileOperationError", "ConfigurationError"}

----------------------------------------------------------------------------
(* tools/computer.py: ComputerTool *)

\* computer.py:20-33  Action.__members__.values()
Actions ==
    {"key", "type", "mouse_move", "left_click", "left_click_drag", "right_click",
     "middle_click", "double_click", "screenshot", "cursor_position",
     "scroll_up", "scroll_down"}

\* A tool input as the model emits it: json.loads(arguments) is a JSON object
\* (the keyword arguments), or some other JSON value.
ObjectInput(action, text, coordinate) ==
    [json |-> "object", action |-> action, text |-> text,
     coordinate |-> coordinate, self |-> None]

\* computer.py:247-266  None when the parameters pass, else the ValidationError
ValidateParams(kwargs) ==
    LET action == kwargs.action IN
    IF ~TruthyStr(action)
    THEN Some(Exception("ValidationError", "action missing"))
    ELSE IF Val(action) \notin Actions
    THEN Some(Exception("ValidationError", "invalid action: " \o Val(action)))
    ELSE IF Val(action) \in {"key", "type"} /\ ~TruthyStr(kwargs.text)
    THEN Some(Exception("ValidationError", Val(action) \o " needs text"))
    ELSE IF Val(action) \in {"key", "type"} /\ TruthyList(kwargs.coordinate)
    THEN Some(Exception("ValidationError", Val(action) \o " takes no coordinate"))
    ELSE IF Val(action) \in {"mouse_move", "left_click_drag"}
            /\ ~TruthyList(kwargs.coordinate)
    THEN Some(Exception("ValidationError", Val(action) \o " needs coordinate"))
    ELSE IF Val(action) \in {"mouse_move", "left_click_drag"} /\ TruthyStr(kwargs.text)
    THEN Some(Exception("ValidationError", Val(action) \o " takes no text"))
    ELSE None

\* computer.py:422-465  take_screenshot: the capture fails with the device or
\* yields a result that carries only the encoded image
TakeScreenshot(device_ok, base64_image) ==
    IF device_ok
    THEN [exception |-> None, result |-> ToolResult(None, None, Some(base64_image), None)]
    ELSE [exception |-> Some(Exception("OSError", "screen grab failed")),
          result |-> ToolResult(None, None, None, None)]

\* computer.py:282-384  the body of the try block of execute: what it returns,
\* or the exception raised inside it, and the pyautogui / pyperclip calls it
\* has performed by then.  device_ok: do the device calls of this run succeed?
\* (a run whose device fails is cut at its first call; the call is named once
\* per action: "press" stands for press or hotkey, and the one-chunk text of
\* type for every chunk; repeat is left at its default of 1)
ExecuteBody(kwargs, device_ok, base64_image) ==
    LET action == Val(kwargs.action)
        coordinate == kwargs.coordinate
        Raise(class, message) ==
            [exception |-> Some(Exception(class, message)),
             result |-> ToolResult(None, None, None, None),
             device_calls |-> <<>>]
        Return(result, calls) ==
            [exception |-> None, result |-> result, device_calls |-> calls]
        DeviceThenScreenshot(calls) ==
            IF device_ok
            THEN Return(TakeScreenshot(device_ok, base64_image).result,
                        calls \o <<"screenshot">>)
            ELSE Raise("OSError", "device call failed")
    IN
    IF action \in {"mouse_move", "left_click_drag"}
    THEN IF IsNone(coordinate) \/ Len(Val(coordinate)) # 2
         THEN Raise("ValidationError", "coordinate must have length 2")
         ELSE IF \E k \in 1..2 : Val(coordinate)[k] < 0
         THEN Raise("ValidationError", "coordinate must be non-negative")
         ELSE DeviceThenScreenshot(IF action = "mouse_move"
                                   THEN <<"moveTo">> ELSE <<"dragTo">>)
    ELSE IF action = "key"
    THEN DeviceThenScreenshot(<<"press">>)
    ELSE IF action = "type"
    THEN IF device_ok
         THEN Return(ToolResult(Some(Val(kwargs.text)), Some(""),
                                Some(base64_image), None),
                     <<"paste", "copy", "hotkey", "copy", "screenshot">>)
         ELSE Raise("OSError", "device call failed")
    ELSE IF action \in {"scroll_up", "scroll_down"}
    THEN DeviceThenScreenshot(<<"scroll">>)
    ELSE IF action = "screenshot"
    THEN LET shot == TakeScreenshot(device_ok, base64_image) IN
         [exception |-> shot.exception, result |-> shot.result,
          device_calls |-> IF device_ok THEN <<"screenshot">> ELSE <<>>]
    ELSE IF action = "cursor_position"
    THEN IF device_ok
         THEN Return(ToolResult(Some("X=0,Y=0"), None, None, None), <<"position">>)
         ELSE Raise("OSError", "device call failed")
    ELSE \* the four click actions: no check of the coordinate but its indexing
         IF IsNone(coordinate)
         THEN DeviceThenScreenshot(<<"click">>)
         ELSE IF Len(Val(coordinate)) < 2
         THEN Raise("IndexError", "list index out of range")
         ELSE DeviceThenScreenshot(<<"screenshot", "moveTo", "click">>)

\* computer.py:268-389  execute: every exception of the body leaves it as an
\* ExecutionError
Execute(kwargs, device_ok, base64_image) ==
    LET r == ExecuteBody(kwargs, device_ok, base64_image) IN
    IF IsNone(r.exception) THEN r
    ELSE [r EXCEPT !.exception =
            Some(Exception("ExecutionError",
                           "computer interaction failed: " \o Val(r.exception).message))]

----------------------------------------------------------------------------
(* tools/base.py: BaseTool.__call__ and ToolCollection *)

\* base.py:53-69  __call__(**kwargs): validate, execute, and turn what they
\* raise into a ToolResult
BaseToolCall(kwargs, device_ok, base64_image) ==
    LET v == ValidateParams(kwargs) IN
    IF ~IsNone(v)
    THEN ErrorResult("parameter validation error: " \o Val(v).message)
    ELSE LET r == Execute(kwargs, device_ok, base64_image) IN
         IF IsNone(r.exception) THEN r.result
         ELSE IF Val(r.exception).class = "ValidationError"
         THEN ErrorResult("parameter validation error: " \o Val(r.exception).message)
         ELSE IF IsToolError(Val(r.exception).class)
         THEN ErrorResult("tool execution error: " \o Val(r.exception).message)
         ELSE ErrorResult("unexpected error: " \o Val(r.exception).message)

\* loop.py:88-90  ToolCollection(ComputerTool()); base.py:96-97
RegisteredTools == {"computer"}

\* openrouter_client.py:106-224  the names of the functions in the tools
\* list of the request
AdvertisedTools == {"computer", "bash", "str_replace_editor"}

\* base.py:103  self.tools[name](**tool_input): the call expression itself
\* raises TypeError when tool_input is not a mapping, and when it has the key
\* "self", which collides with the receiver of __call__
CallRaisesTypeError(tool_input) ==
    tool_input.json # "object" \/ ~IsNone(tool_input.self)

\* base.py:99-103  ToolCollection.run: the ToolResult it returns, or the
\* exception it raises to its caller
ToolCollectionRun_no_lookup(name, tool_input, device_ok, base64_image) ==
    IF CallRaisesTypeError(tool_input)
    THEN [exception |-> Some(Exception("TypeError", "argument after ** must be a mapping")),
          result |-> ToolResult(None, None, None, None)]
    ELSE [exception |-> None,
          result |-> BaseToolCall(tool_input, device_ok, base64_image)]
ToolCollectionRun(name, tool_input, device_ok, base64_image) ==
    IF name \notin RegisteredTools
    THEN [exception |-> None,
          result |-> ErrorResult("tool " \o name \o " not found")]
    ELSE IF CallRaisesTypeError(tool_input)
    THEN [exception |-> Some(Exception("TypeError", "argument after ** must be a mapping")),
          result |-> ToolResult(None, None, None, None)]
    ELSE [exception |-> None,
          result |-> BaseToolCall(tool_input, device_ok, base64_image)]

----------------------------------------------------------------------------
(* loop.py: _make_api_tool_result *)

\* loop.py:284-287
MaybePrependSystemToolResult(result, result_text) ==
    IF TruthyStr(result.system)
    THEN "<system>" \o Val(result.system) \o "</system>\n" \o result_text
    ELSE result_text

\* loop.py:247-281
MakeApiToolResult(result, tool_use_id) ==
    LET is_error == TruthyStr(result.error)
        text_part ==
            IF TruthyStr(result.output)
            THEN <<[type |-> "text",
                    text |-> MaybePrependSystemToolResult(result, Val(result.output))]>>
            ELSE <<>>
        image_part ==
            IF TruthyStr(result.base64_image)
            THEN <<ImageBlock(Val(result.base64_image))>>
            ELSE <<>>
    IN [tool_result |-> [type |-> "tool_result", tool_use_id |-> tool_use_id,
                         is_error |-> is_error],
        content |-> IF is_error
                    THEN StrContent(MaybePrependSystemToolResult(result, Val(result.error)))
                    ELSE ListContent(text_part \o image_part),
        tool_use_id |-> tool_use_id]

\* json.dumps([item["tool_result"]]) at loop.py:160
JsonDumpsToolResult(tool_result) ==
    "[{\"type\": \"tool_result\", \"tool_use_id\": \"" \o tool_result.tool_use_id
    \o "\", \"is_error\": " \o (IF tool_result.is_error THEN "true" ELSE "false")
    \o "}]"

\* loop.py:160  the tool-role message of one entry of tool_result_content
ToolMessage(item) ==
    [role |-> "tool", name |-> "computer", tool_call_id |-> item.tool_use_id,
     content |-> StrContent(JsonDumpsToolResult(item.tool_result))]

\* loop.py:159-160  appended in the order of tool_result_content
ToolMessages_reversed(items) == Reverse([k \in 1..Len(items) |-> ToolMessage(items[k])])
ToolMessages(items) == [k \in 1..Len(items) |-> ToolMessage(items[k])]

\* loop.py:161  the user-role message built from the last tool result
LastResultUserMessage_json(items) ==
    [role |-> "user",
     content |-> StrContent(JsonDumpsToolResult(items[Len(items)].tool_result))]
LastResultUserMessage(items) == [role |-> "user", content |-> items[Len(items)].content]

----------------------------------------------------------------------------
(* openrouter_client.py: OpenrouterClient.Beta.Messages.create             *)
(*                                                                         *)
(* sampling_loop calls create(max_tokens, messages, system,                *)
(* tools=tool_collection.to_params(), betas=betas) and reads               *)
(* response.content of what parse() returns.  In this source tree          *)
(* ToolCollection defines no to_params, create() has no tools or betas     *)
(* parameter and parse() returns a dict, so that, taken literally, each    *)
(* pass ends at loop.py:121-140 with an AttributeError or a TypeError: one *)
(* more exception the except clauses of the loop do not catch.  The model  *)
(* lets the call reach the body of create() and dispatches the content     *)
(* list that create() builds (openrouter_client.py:262-271), so that the   *)
(* code behind the call is covered too; a run of the literal code is the   *)
(* run StartCall, CreateFails of the model, up to the exception class.     *)

\* The ways the request of create() fails, with the line that detects each.
TransportFailures ==
    {"timeout",            \* 237 httpx.TimeoutException
     "connection_error",   \* 239 httpx.RequestError
     "http_error_status",  \* 236, 241 raise_for_status
     "invalid_json",       \* 246-249 http_response.json()
     "missing_usage"}      \* 282 payload without "usage"

\* openrouter_client.py:226-284  the class of the exception create() raises
CreateException(failure) ==
    CASE failure \in {"timeout", "connection_error", "http_error_status"} -> "RuntimeError"
      [] failure = "invalid_json" -> "ValueError"
      [] failure = "missing_usage" -> "KeyError"         \* raised after the try block

\* loop.py:128-133  the classes the two except clauses of sampling_loop catch:
\* anthropic.APIError and its subclasses
CaughtBySamplingLoop(class) ==
    class \in {"APIError", "APIStatusError", "APIResponseValidationError",
               "APIConnectionError", "APITimeoutError"}

\* openrouter_client.py:262-271  the content list built from the reply: the
\* text, when there is one, followed by one tool_use block per tool call
ResponseContent(text, tool_calls) ==
    (IF IsNone(text) THEN <<>> ELSE <<[type |-> "text", text |-> Val(text)]>>)
    \o [k \in 1..Len(tool_calls) |->
          [type |-> "tool_use", name |-> tool_calls[k].name,
           input |-> tool_calls[k].input, id |-> tool_calls[k].id]]

\* openrouter_client.py:287  choices[0]["message"], what sampling_loop appends
AssistantMessage(text, tool_calls) ==
    [role |-> "assistant",
     content |-> IF IsNone(text) THEN NoneContent ELSE StrContent(Val(text)),
     tool_calls |-> [k \in 1..Len(tool_calls) |-> tool_calls[k].id]]

----------------------------------------------------------------------------
(* What the model can reply *)

\* the tool calls a reply is made of: tool name and arguments
ToolCallShapes ==
    {[name |-> "computer", input |-> ObjectInput(Some("screenshot"), None, None)],
     [name |-> "computer", input |-> ObjectInput(Some("key"), None, None)],
     [name |-> "bash", input |-> ObjectInput(None, None, None)],
     [name |-> "computer", input |-> [json |-> "array"]]}

ReplyTexts == {None, Some("ok")}

\* the sequences of tool calls one reply can carry
ToolCallSequences == SeqsUpTo(ToolCallShapes, MaxToolCalls)

\* the tool calls of a reply of pass it: ids are distinct
ToolCallsOf(it, shapes) ==
    [k \in 1..Len(shapes) |->
        [name |-> shapes[k].name, input |-> shapes[k].input,
         id |-> "call_" \o ToString(it) \o "_" \o ToString(k)]]

Base64Image(it, k) == "shot " \o ToString(it) \o "." \o ToString(k)

----------------------------------------------------------------------------
(* loop.py: sampling_loop *)

\* streamlit.py:189-195  the history handed to sampling_loop: the prompt of the
\* user as one user-role message
InitialHistory == <<[role |-> "user", content |-> StrContent("prompt")]>>

LoopInit ==
    /\ messages = InitialHistory
    /\ only_n_most_recent_images \in {None, Some(0), Some(-1), Some(1)}
    /\ pc = "AWAITING_MODEL"
    /\ iteration = 0
    /\ sent_messages = <<>>
    /\ call_failure = None
    /\ response_params = <<>>
    /\ block_index = 0
    /\ tool_result_content = <<>>
    /\ trace = <<>>
    /\ returned = None
    /\ raised = None

StartCall_unfiltered ==
    /\ pc = "AWAITING_MODEL"
    /\ iteration < MaxIterations
    /\ iteration' = iteration + 1
    /\ messages' = messages
    /\ sent_messages' = messages'
    /\ call_failure' = None
    /\ trace' = <<>>
    /\ pc' = "CALLING"
    /\ UNCHANGED <<only_n_most_recent_images, response_params, block_index,
                   tool_result_content, returned, raised>>

\* loop.py:96-127  top of a pass: build the client, filter the history, send it
StartCall ==
    /\ pc = "AWAITING_MODEL"
    /\ iteration < MaxIterations
    /\ iteration' = iteration + 1
    /\ messages' = IF TruthyInt(only_n_most_recent_images)
                   THEN MaybeFilterToNMostRecentImages(messages, only_n_most_recent_images)
                   ELSE messages
    /\ sent_messages' = messages'
    /\ call_failure' = None
    /\ trace' = <<>>
    /\ pc' = "CALLING"
    /\ UNCHANGED <<only_n_most_recent_images, response_params, block_index,
                   tool_result_content, returned, raised>>

\* loop.py:120-133  create() raises: caught and reported, or left to propagate
CreateFails(failure) ==
    /\ pc = "CALLING"
    /\ call_failure' = Some(failure)
    /\ IF CaughtBySamplingLoop(CreateException(failure))
       THEN /\ trace' = Append(trace, [cb |-> "api_response",
                                       error |-> Some(CreateException(failure))])
            /\ returned' = Some(messages)
            /\ pc' = "ABORTED"
            /\ UNCHANGED raised
       ELSE /\ raised' = Some(CreateException(failure))
            /\ pc' = "RAISED"
            /\ UNCHANGED <<trace, returned>>
    /\ UNCHANGED <<messages, only_n_most_recent_images, iteration, sent_messages,
                   response_params, block_index, tool_result_content>>

RECURSIVE ToolCallsMade(_)
\* the tool calls of the assistant messages of a history
ToolCallsMade(history) ==
    IF history = <<>> THEN 0
    ELSE (IF Head(history).role = "assistant" THEN Len(Head(history).tool_calls) ELSE 0)
         + ToolCallsMade(Tail(history))

\* loop.py:121-143  create() returns: report, append the model's message
CreateReturns(text, shapes) ==
    LET tool_calls == ToolCallsOf(iteration, shapes) IN
    /\ pc = "CALLING"
    /\ ToolCallsMade(messages) + Len(shapes) <= MaxToolCalls
    /\ trace' = Append(trace, [cb |-> "api_response", error |-> None])
    /\ response_params' = ResponseContent(text, tool_calls)
    /\ messages' = Append(messages, AssistantMessage(text, tool_calls))
    /\ tool_result_content' = <<>>
    /\ block_index' = 1
    /\ pc' = "DISPATCHING"
    /\ UNCHANGED <<only_n_most_recent_images, iteration, sent_messages,
                   call_failure, returned, raised>>

\* loop.py:144-150  next content block: output_callback, then start its tool
NextBlock ==
    /\ pc = "DISPATCHING"
    /\ block_index <= Len(response_params)
    /\ LET content_block == response_params[block_index] IN
       /\ trace' = Append(trace, [cb |-> "output", block |-> block_index])
                   \o (IF content_block.type = "tool_use"
                       THEN <<[cb |-> "run", id |-> content_block.id]>> ELSE <<>>)
       /\ IF content_block.type = "tool_use"
          THEN pc' = "RUNNING_TOOL" /\ UNCHANGED block_index
          ELSE pc' = "DISPATCHING" /\ block_index' = block_index + 1
    /\ UNCHANGED <<messages, only_n_most_recent_images, iteration, sent_messages,
                   call_failure, response_params, tool_result_content,
                   returned, raised>>

\* loop.py:147-154  tool_collection.run comes back: with a result, which is
\* recorded and reported, or with an exception, which leaves the loop
ToolRunEnds(device_ok) ==
    /\ pc = "RUNNING_TOOL"
    /\ LET content_block == response_params[block_index]
           run == ToolCollectionRun(content_block.name, content_block.input,
                                    device_ok, Base64Image(iteration, block_index))
       IN IF IsNone(run.exception)
          THEN /\ tool_result_content' =
                     Append(tool_result_content,
                            MakeApiToolResult(run.result, content_block.id))
               /\ trace' = trace \o <<[cb |-> "ran", id |-> content_block.id],
                                      [cb |-> "tool_output", id |-> content_block.id]>>
               /\ block_index' = block_index + 1
               /\ pc' = "DISPATCHING"
               /\ UNCHANGED raised
          ELSE /\ raised' = Some(Val(run.exception).class)
               /\ pc' = "RAISED"
               /\ UNCHANGED <<tool_result_content, trace, block_index>>
    /\ UNCHANGED <<messages, only_n_most_recent_images, iteration, sent_messages,
                   call_failure, response_params, returned>>

\* loop.py:156-161  after the last block: return, or fold the results into
\* the history and go round again
EndOfResponse ==
    /\ pc = "DISPATCHING"
    /\ block_index > Len(response_params)
    /\ IF tool_result_content = <<>>
       THEN /\ returned' = Some(messages)
            /\ pc' = "DONE"
            /\ UNCHANGED messages
       ELSE /\ messages' = (messages \o ToolMessages(tool_result_content))
                           \o <<LastResultUserMessage(tool_result_content)>>
            /\ pc' = "AWAITING_MODEL"
            /\ UNCHANGED returned
    /\ UNCHANGED <<only_n_most_recent_images, iteration, sent_messages,
                   call_failure, response_params, block_index,
                   tool_result_content, trace, raised>>

LoopIdle ==
    /\ messages = <<>>
    /\ only_n_most_recent_images = None
    /\ pc = "idle"
    /\ iteration = 0
    /\ sent_messages = <<>>
    /\ call_failure = None
    /\ response_params = <<>>
    /\ block_index = 0
    /\ tool_result_content = <<>>
    /\ trace = <<>>
    /\ returned = None
    /\ raised = None

ToolIdle ==
    /\ t_kwargs = ObjectInput(None, None, None)
    /\ t_device_ok = TRUE
    /\ t_result = ToolResult(None, None, None, None)
    /\ t_device_calls = <<>>
    /\ t_pc = "idle"

GeometryIdle ==
    /\ g_physical = <<0, 0>>
    /\ g_dpi = 0
    /\ g_taskbar_offset = 0
    /\ g_target = None
    /\ g_point = <<0, 0>>
    /\ g_screen = <<0, 0>>
    /\ g_api = <<0, 0>>
    /\ g_pc = "idle"

ScreenshotIdle ==
    /\ s_sizes = <<>>
    /\ s_evaluated = <<>>
    /\ s_chosen = 0
    /\ s_pc = "idle"

IconIdle ==
    /\ i_target = <<0, 0>>
    /\ i_boxes = <<>>
    /\ i_center = None
    /\ i_click = <<0, 0>>
    /\ i_pc = "idle"

FilterIdle ==
    /\ f_messages = <<>>
    /\ f_keep = None
    /\ f_result = <<>>
    /\ f_pc = "idle"

EditIdle ==
    /\ e_file = None
    /\ e_history = <<>>
    /\ e_log = <<>>
    /\ e_calls = 0
    /\ e_pending = <<>>

DeviceIdle ==
    /\ d_kwargs = <<>>
    /\ d_group_size = 0
    /\ d_clipboard = <<>>
    /\ d_original = <<>>
    /\ d_calls = <<>>
    /\ d_result = <<>>
    /\ d_pc = "idle"

BrowserIdle ==
    /\ b_kwargs = <<>>
    /\ b_page = <<>>
    /\ b_accepted = FALSE
    /\ b_located = <<>>
    /\ b_result = <<>>
    /\ b_pc = "idle"

\* every part of the state but the named one is at rest
IdleExcept(part) ==
    /\ part = "loop" \/ LoopIdle
    /\ part = "filter" \/ FilterIdle
    /\ part = "tool" \/ ToolIdle
    /\ part = "geometry" \/ GeometryIdle
    /\ part = "screenshot" \/ ScreenshotIdle
    /\ part = "icon" \/ IconIdle
    /\ part = "edit" \/ EditIdle
    /\ part = "device" \/ DeviceIdle
    /\ part = "browser" \/ BrowserIdle

Init == LoopInit /\ IdleExcept("loop")

Next ==
    \/ StartCall /\ UNCHANGED notloop
    \/ (\E failure \in TransportFailures : CreateFails(failure)) /\ UNCHANGED notloop
    \/ (\E text \in ReplyTexts, shapes \in ToolCallSequences :
            CreateReturns(text, shapes)) /\ UNCHANGED notloop
    \/ NextBlock /\ UNCHANGED notloop
    \/ (\E device_ok \in BOOLEAN : ToolRunEnds(device_ok)) /\ UNCHANGED notloop
    \/ EndOfResponse /\ UNCHANGED notloop

Spec == Init /\ [][Next]_vars

----------------------------------------------------------------------------
(* Histories handed to the filter: every block carries its position, so    *)
(* that blocks can be told apart.                                           *)

BlockShapes == {"image", "text"}
MessageShapes ==
    {[kind |-> "str"]}
    \cup {[kind |-> "list", blocks |-> b] : b \in SeqsUpTo(BlockShapes, MaxContent)}

BlockAt(i, j, shape) ==
    IF shape = "image"
    THEN ImageBlock("shot " \o ToString(i) \o "." \o ToString(j))
    ELSE [type |-> "text", text |-> "text " \o ToString(i) \o "." \o ToString(j)]

MessageAt(i, shape) ==
    IF shape.kind = "str"
    THEN [role |-> "assistant", content |-> StrContent("reply " \o ToString(i))]
    ELSE [role |-> "user",
          content |-> ListContent([j \in 1..Len(shape.blocks) |->
                                      BlockAt(i, j, shape.blocks[j])])]

Histories ==
    {[i \in 1..Len(sh) |-> MessageAt(i, sh[i])] : sh \in SeqsUpTo(MessageShapes, MaxMessages)}

KeepValues == {None} \cup {Some(n) : n \in -1..MaxKeep}

FilterInit ==
    /\ f_messages \in Histories
    /\ f_keep \in KeepValues
    /\ f_result = <<>>
    /\ f_pc = "input"
    /\ IdleExcept("filter")

\* one call of _maybe_filter_to_n_most_recent_images(f_messages, f_keep)
FilterCall ==
    /\ f_pc = "input"
    /\ f_result' = MaybeFilterToNMostRecentImages(f_messages, f_keep)
    /\ f_pc' = "filtered"
    /\ UNCHANGED <<f_messages, f_keep, notfilter>>

FilterNext == FilterCall

FilterSpec == FilterInit /\ [][FilterNext]_vars

----------------------------------------------------------------------------
(* tools/base.py: one call of the computer tool with keyword arguments *)

\* base.py:53-69  the device calls performed by __call__(**kwargs): none when
\* validate_params raises, else those of execute
DeviceCalls(kwargs, device_ok, base64_image) ==
    IF ~IsNone(ValidateParams(kwargs)) THEN <<>>
    ELSE Execute(kwargs, device_ok, base64_image).device_calls

\* computer.py:141-186  the parameters of the tool: values a caller can pass
\* for "action", "text" and "coordinate" (None: the key is absent)
ActionInputs == {None} \cup {Some(a) : a \in Actions \cup {"zoom"}}
TextInputs == {None, Some(""), Some("a")}
CoordinateInputs ==
    {None, Some(<<>>), Some(<<1>>), Some(<<1, 2>>), Some(<<-1, 2>>),
     Some(<<1, -2>>), Some(<<1, 2, 3>>)}

ToolInit ==
    /\ t_kwargs \in {ObjectInput(a, t, c) :
                        a \in ActionInputs, t \in TextInputs, c \in CoordinateInputs}
    /\ t_device_ok \in BOOLEAN
    /\ t_result = ToolResult(None, None, None, None)
    /\ t_device_calls = <<>>
    /\ t_pc = "input"
    /\ IdleExcept("tool")

\* one call of the tool with the keyword arguments t_kwargs
ToolCall ==
    /\ t_pc = "input"
    /\ t_result' = BaseToolCall(t_kwargs, t_device_ok, "image")
    /\ t_device_calls' = DeviceCalls(t_kwargs, t_device_ok, "image")
    /\ t_pc' = "called"
    /\ UNCHANGED <<t_kwargs, t_device_ok, nottool>>

ToolNext == ToolCall

ToolSpec == ToolInit /\ [][ToolNext]_vars

----------------------------------------------------------------------------
(* tools/computer.py: ComputerTool.__init__ and CoordinateTranslator *)

\* Python computes the ratios and the scale factors in floating point; here
\* they are exact: a ratio w / h is compared by cross-multiplication, and
\* dpi_scale is dpi / 96 (computer.py:497), so x * x_scale / dpi_scale is the
\* fraction (x * physical_width * 96) / (target_width * dpi).

\* config.py:22-28  SCALING_TARGETS.values(), in the order of the dict
SCALING_TARGETS ==
    <<[name |-> "16:10", width |-> 1280, height |-> 800],
      [name |-> "16:9", width |-> 1366, height |-> 768],
      [name |-> "4:3", width |-> 1280, height |-> 960],
      [name |-> "3:2", width |-> 1350, height |-> 900],
      [name |-> "5:4", width |-> 1280, height |-> 1024]>>

Abs(n) == IF n < 0 THEN -n ELSE n

\* computer.py:206  ratio_diff = abs(target_ratio - aspect_ratio), scaled by
\* physical_height (the same positive factor for every target) and kept as
\* the pair <<numerator, denominator>> of a fraction
RatioDiff(target, physical_width, physical_height) ==
    <<Abs(target.width * physical_height - physical_width * target.height),
      target.height>>

\* computer.py:208  if ratio_diff < best_ratio_diff, best_ratio_diff being
\* float('inf') (None here) before the first target
RatioDiffLess_or_equal(ratio_diff, best_ratio_diff) ==
    \/ IsNone(best_ratio_diff)
    \/ ratio_diff[1] * Val(best_ratio_diff)[2] <= Val(best_ratio_diff)[1] * ratio_diff[2]
RatioDiffLess(ratio_diff, best_ratio_diff) ==
    \/ IsNone(best_ratio_diff)
    \/ ratio_diff[1] * Val(best_ratio_diff)[2] < Val(best_ratio_diff)[1] * ratio_diff[2]

RECURSIVE BestTarget(_, _, _, _, _)
\* computer.py:200-210  the loop over the targets, from target k on
BestTarget(k, best_target, best_ratio_diff, physical_width, physical_height) ==
    IF k > Len(SCALING_TARGETS) THEN best_target
    ELSE LET target == SCALING_TARGETS[k]
             ratio_diff == RatioDiff(target, physical_width, physical_height)
         IN IF RatioDiffLess(ratio_diff, best_ratio_diff)
            THEN BestTarget(k + 1, Some(target), Some(ratio_diff),
                            physical_width, physical_height)
            ELSE BestTarget(k + 1, best_target, best_ratio_diff,
                            physical_width, physical_height)

\* int(n / d) for d > 0: Python's int() truncates toward zero
Trunc(n, d) == IF n >= 0 THEN n \div d ELSE -((-n) \div d)

\* computer.py:44-56  the fields of a CoordinateTranslator
Translator(dpi, taskbar_offset, physical, target) ==
    [dpi |-> dpi, taskbar_offset |-> taskbar_offset,
     physical_width |-> physical[1], physical_height |-> physical[2],
     target_width |-> target[1], target_height |-> target[2]]

\* computer.py:65-69  api_to_screen
ApiToScreen_times_dpi(tr, x, y) ==
    <<Trunc(x * tr.physical_width * tr.dpi, tr.target_width * 96),
      Trunc(y * tr.physical_height * tr.dpi, tr.target_height * 96)
          + tr.taskbar_offset>>
ApiToScreen(tr, x, y) ==
    <<Trunc(x * tr.physical_width * 96, tr.target_width * tr.dpi),
      Trunc(y * tr.physical_height * 96, tr.target_height * tr.dpi)
          + tr.taskbar_offset>>

\* computer.py:71-75  screen_to_api
ScreenToApi_no_offset(tr, x, y) ==
    <<Trunc(x * tr.dpi * tr.target_width, 96 * tr.physical_width),
      Trunc(y * tr.dpi * tr.target_height, 96 * tr.physical_height)>>
ScreenToApi(tr, x, y) ==
    <<Trunc(x * tr.dpi * tr.target_width, 96 * tr.physical_width),
      Trunc((y - tr.taskbar_offset) * tr.dpi * tr.target_height,
            96 * tr.physical_height)>>

\* computer.py:481-514  what _get_windows_coordinate_system can return: the
\* monitor's size, GetDpiForSystem (100 %, 125 %, 150 %) and work_rect.top
PhysicalResolutions ==
    {<<1920, 1080>>, <<1920, 1200>>, <<1024, 768>>, <<1280, 1024>>,
     <<3000, 2000>>, <<2560, 1440>>, <<1550, 1000>>, <<1550, 1200>>}
DpiValues == {96, 120, 144}
TaskbarOffsets == {0, 40}

\* the logical points handed to api_to_screen: every x of the logical width
\* and, with it, every y of the logical height
LogicalPoints(target) == {<<x, x % target[2]>> : x \in 0..(target[1] - 1)}

GeometryInit ==
    /\ g_physical \in PhysicalResolutions
    /\ g_dpi \in DpiValues
    /\ g_taskbar_offset \in TaskbarOffsets
    /\ g_target = None
    /\ g_point = <<0, 0>>
    /\ g_screen = <<0, 0>>
    /\ g_api = <<0, 0>>
    /\ g_pc = "input"
    /\ IdleExcept("geometry")

\* computer.py:193-223  ComputerTool.__init__: choose the target resolution,
\* build the translator
Construct ==
    /\ g_pc = "input"
    /\ LET best_target == Val(BestTarget(1, None, None, g_physical[1], g_physical[2]))
       IN g_target' = Some(<<best_target.width, best_target.height>>)
    /\ g_pc' = "built"
    /\ UNCHANGED <<g_physical, g_dpi, g_taskbar_offset, g_point, g_screen, g_api,
                   notgeometry>>

\* the translator of the tool
TheTranslator == Translator(g_dpi, g_taskbar_offset, g_physical, Val(g_target))

\* a call translator.api_to_screen(x, y)
CallApiToScreen(point) ==
    /\ g_pc = "built"
    /\ g_point' = point
    /\ g_screen' = ApiToScreen(TheTranslator, point[1], point[2])
    /\ g_pc' = "mapped"
    /\ UNCHANGED <<g_physical, g_dpi, g_taskbar_offset, g_target, g_api, notgeometry>>

\* a call translator.screen_to_api on the point api_to_screen returned
CallScreenToApi ==
    /\ g_pc = "mapped"
    /\ g_api' = ScreenToApi(TheTranslator, g_screen[1], g_screen[2])
    /\ g_pc' = "returned"
    /\ UNCHANGED <<g_physical, g_dpi, g_taskbar_offset, g_target, g_point, g_screen,
                   notgeometry>>

GeometryNext ==
    \/ Construct
    \/ /\ g_pc = "built"
       /\ \E point \in LogicalPoints(Val(g_target)) : CallApiToScreen(point)
    \/ CallScreenToApi

GeometrySpec == GeometryInit /\ [][GeometryNext]_vars

----------------------------------------------------------------------------
(* tools/computer.py: take_screenshot, the compression levels *)

\* config.py:14
MAX_IMAGE_SIZE == 5 * 1024 * 1024

\* computer.py:437-452  compression_levels, in the order of the list
CompressionLevels == <<"png", "half_png", "gray_png", "half_gray_png">>

\* computer.py:460  if size <= MAX_IMAGE_SIZE
SizeFits_strict(size) == size < MAX_IMAGE_SIZE
SizeFits(size) == size <= MAX_IMAGE_SIZE

RECURSIVE Cascade(_, _, _)
\* computer.py:455-465  the loop over compression_levels from level k on, and
\* the fallback behind it, which runs the last encoder once more
Cascade(sizes, k, evaluated) ==
    IF k > Len(CompressionLevels)
    THEN [chosen |-> Len(CompressionLevels),
          evaluated |-> Append(evaluated, Len(CompressionLevels))]
    ELSE IF SizeFits(sizes[k])
    THEN [chosen |-> k, evaluated |-> Append(evaluated, k)]
    ELSE Cascade(sizes, k + 1, Append(evaluated, k))

\* len(img_buffer.getvalue()) of one level: under, at and over the limit
EncodedSizes == {MAX_IMAGE_SIZE - 1, MAX_IMAGE_SIZE, MAX_IMAGE_SIZE + 1}

ScreenshotInit ==
    /\ s_sizes \in [1..Len(CompressionLevels) -> EncodedSizes]
    /\ s_evaluated = <<>>
    /\ s_chosen = 0
    /\ s_pc = "input"
    /\ IdleExcept("screenshot")

\* one call of take_screenshot on a frame whose encodings have the sizes s_sizes
CallTakeScreenshot ==
    /\ s_pc = "input"
    /\ LET r == Cascade(s_sizes, 1, <<>>) IN
       /\ s_chosen' = r.chosen
       /\ s_evaluated' = r.evaluated
    /\ s_pc' = "taken"
    /\ UNCHANGED <<s_sizes, notscreenshot>>

ScreenshotNext == CallTakeScreenshot

ScreenshotSpec == ScreenshotInit /\ [][ScreenshotNext]_vars

----------------------------------------------------------------------------
(* tools/computer.py: IconDetector.find_icon_center and _smart_click *)

\* computer.py:80  IconDetector(min_size=16, max_size=64)
min_size == 16
max_size == 64
\* computer.py:110  min_distance = 5.0 before the first contour
min_distance == 5

\* computer.py:91-95  the corner <<x1, y1>> of the region of interest
RoiOrigin(target) ==
    LET roi_size == max_size * 2
        Max0(n) == IF n > 0 THEN n ELSE 0
    IN <<Max0(target[1] - roi_size), Max0(target[2] - roi_size)>>

\* computer.py:117-118  is the bounding box of icon size?
IconSized(box) ==
    /\ min_size <= box.w /\ box.w <= max_size
    /\ min_size <= box.h /\ box.h <= max_size

\* computer.py:121-122  the center of a bounding box, in screen coordinates
BoxCenter(box, target) ==
    <<RoiOrigin(target)[1] + box.x + box.w \div 2,
      RoiOrigin(target)[2] + box.y + box.h \div 2>>

\* computer.py:125-126  the square of distance
DistanceSquared(center, target) ==
    (center[1] - target[1]) * (center[1] - target[1])
    + (center[2] - target[2]) * (center[2] - target[2])

\* computer.py:128  if distance < min_distance, on the squares of the two
\* non-negative numbers
DistanceLess_or_equal(distance_squared, min_distance_squared) ==
    distance_squared <= min_distance_squared
DistanceLess(distance_squared, min_distance_squared) ==
    distance_squared < min_distance_squared

RECURSIVE FindIconCenter(_, _, _, _, _)
\* computer.py:108-137  the loop over the contours from contour k on; returns
\* best_center
FindIconCenter(boxes, k, target, best_center, min_distance_squared) ==
    IF k > Len(boxes) THEN best_center
    ELSE LET center == BoxCenter(boxes[k], target)
             distance_squared == DistanceSquared(center, target)
         IN IF IconSized(boxes[k])
               /\ DistanceLess(distance_squared, min_distance_squared)
            THEN FindIconCenter(boxes, k + 1, target, Some(center), distance_squared)
            ELSE FindIconCenter(boxes, k + 1, target, best_center,
                                min_distance_squared)

\* computer.py:394-409  the point _smart_click moves the pointer to
ClickPoint(boxes, target) ==
    LET center == FindIconCenter(boxes, 1, target, None,
                                 min_distance * min_distance)
    IN IF ~IsNone(center) THEN Val(center) ELSE target

\* the translated points handed to _smart_click: one far from the screen's
\* edge and one whose region of interest is cut by it
ClickTargets == {<<200, 300>>, <<100, 300>>}
\* where the center of a contour's box lies, relative to the target
CenterOffsets == {<<3, 4>>, <<2, 2>>, <<2, -2>>, <<-4, -2>>, <<6, 0>>, <<0, 0>>}
\* <<w, h>> of a contour's box
BoxSizes == {<<16, 16>>, <<64, 33>>, <<15, 20>>, <<20, 65>>}
\* cv2.boundingRect of a contour found in the region of interest
BoxesNear(target) ==
    {[x |-> target[1] - RoiOrigin(target)[1] + o[1] - sz[1] \div 2,
      y |-> target[2] - RoiOrigin(target)[2] + o[2] - sz[2] \div 2,
      w |-> sz[1], h |-> sz[2]] : o \in CenterOffsets, sz \in BoxSizes}

IconInit ==
    /\ i_target \in ClickTargets
    /\ i_boxes \in SeqsUpTo(BoxesNear(i_target), MaxContours)
    /\ i_center = None
    /\ i_click = <<0, 0>>
    /\ i_pc = "input"
    /\ IdleExcept("icon")

\* one call of _smart_click(x, y, action) up to pyautogui.moveTo
SmartClick ==
    /\ i_pc = "input"
    /\ i_center' = FindIconCenter(i_boxes, 1, i_target, None,
                                  min_distance * min_distance)
    /\ i_click' = ClickPoint(i_boxes, i_target)
    /\ i_pc' = "clicked"
    /\ UNCHANGED <<i_target, i_boxes, noticon>>

IconNext == SmartClick

IconSpec == IconInit /\ [][IconNext]_vars

----------------------------------------------------------------------------
(* tools/edit.py: EditTool, FileHistory and FileManager.  A Python str is  *)
(* the sequence of its characters.                                         *)

\* str.expandtabs(): a tab becomes the spaces up to the next multiple of 8,
\* the column starts again after a newline
tabsize == 8

RECURSIVE Spaces(_)
Spaces(n) == IF n = 0 THEN <<>> ELSE <<" ">> \o Spaces(n - 1)

RECURSIVE ExpandTabsFrom(_, _)
ExpandTabsFrom(str, column) ==
    IF str = <<>> THEN <<>>
    ELSE IF Head(str) = "\t"
         THEN Spaces(tabsize - (column % tabsize)) \o ExpandTabsFrom(Tail(str), 0)
    ELSE IF Head(str) = "\n"
         THEN <<"\n">> \o ExpandTabsFrom(Tail(str), 0)
    ELSE <<Head(str)>> \o ExpandTabsFrom(Tail(str), column + 1)

ExpandTabs(str) == ExpandTabsFrom(str, 0)

StartsWith(str, prefix) ==
    Len(str) >= Len(prefix) /\ SubSeq(str, 1, Len(prefix)) = prefix

\* str.count(sub) for a non-empty sub: occurrences that do not overlap,
\* found from the left
RECURSIVE Count(_, _)
Count(str, sub) ==
    IF Len(str) < Len(sub) THEN 0
    ELSE IF StartsWith(str, sub)
         THEN 1 + Count(SubSeq(str, Len(sub) + 1, Len(str)), sub)
    ELSE Count(Tail(str), sub)

\* str.replace(old, new) for a non-empty old
RECURSIVE Replace(_, _, _)
Replace(str, old, new) ==
    IF Len(str) < Len(old) THEN str
    ELSE IF StartsWith(str, old)
         THEN new \o Replace(SubSeq(str, Len(old) + 1, Len(str)), old, new)
    ELSE <<Head(str)>> \o Replace(Tail(str), old, new)

\* str.split('\n')
RECURSIVE Split(_)
Split(str) ==
    IF \A i \in 1..Len(str) : str[i] # "\n" THEN <<str>>
    ELSE LET i == CHOOSE i \in 1..Len(str) :
                      str[i] = "\n" /\ \A j \in 1..(i - 1) : str[j] # "\n"
         IN  <<SubSeq(str, 1, i - 1)>> \o Split(SubSeq(str, i + 1, Len(str)))

\* '\n'.join(lines)
RECURSIVE Join(_)
Join(lines) ==
    IF lines = <<>> THEN <<>>
    ELSE IF Len(lines) = 1 THEN lines[1]
    ELSE lines[1] \o <<"\n">> \o Join(Tail(lines))

\* FileHistory.push: self._history[path].append(content)
Push(history, content) == Append(history, content)

\* FileHistory.pop: None for an empty list, else list.pop(), which removes
\* and returns the last item
Pop_first(history) ==
    IF history = <<>> THEN [content |-> None, history |-> history]
    ELSE [content |-> Some(Head(history)), history |-> Tail(history)]

Pop(history) ==
    IF history = <<>> THEN [content |-> None, history |-> history]
    ELSE [content |-> Some(history[Len(history)]),
          history |-> SubSeq(history, 1, Len(history) - 1)]

\* FileHistory.has_history
HasHistory(history) == history # <<>>

\* the keyword arguments of a call; the path is the one absolute path of the
\* session, which is never a directory
EditInput(command, file_text, old_str, new_str, insert_line) ==
    [command |-> command, path |-> Some("/f"), file_text |-> file_text,
     old_str |-> old_str, new_str |-> new_str, insert_line |-> insert_line]

Commands == {"view", "create", "str_replace", "insert", "undo_edit"}

\* what a method of the tool leaves behind: the exception it raised or the
\* result it returned, the file and the history
Outcome(exception, result, file, history) ==
    [exception |-> exception, result |-> result, file |-> file,
     history |-> history]

Raises(class, message, file, history) ==
    Outcome(Some(Exception(class, message)), None, file, history)

Returns(output, file, history) ==
    Outcome(None, Some(ToolResult(Some(output), None, None, None)), file,
            history)

\* EditTool.validate_params and _validate_path: the message of the
\* ValidationError, None when the arguments pass
EditValidateParams(kwargs, file) ==
    IF ~TruthyStr(kwargs.command)
        THEN Some("no command")
    ELSE IF Val(kwargs.command) \notin Commands THEN Some("invalid command")
    ELSE IF ~TruthyStr(kwargs.path)
        THEN Some("no path")
    ELSE IF IsNone(file) /\ Val(kwargs.command) # "create"
        THEN Some("path does not exist")
    ELSE IF ~IsNone(file) /\ Val(kwargs.command) = "create"
        THEN Some("path exists")
    ELSE None

\* EditTool._view without view_range
View(file, history) == Returns("content", file, history)

\* EditTool._create
Create(file, history, content) == Returns("created", Some(content), history)

\* EditTool._str_replace
StrReplace(file, history, old_str, new_str) ==
    LET content == Val(file)
        old == ExpandTabs(old_str)
        new == ExpandTabs(new_str)
        occurrences == Count(content, old)
    IN  IF occurrences = 0
            THEN Raises("ValidationError", "not found", file, history)
        ELSE IF occurrences > 1
            THEN Raises("ValidationError", "several matches", file, history)
        ELSE Returns("replaced", Some(Replace(content, old, new)),
                     Push(history, content))

\* EditTool._insert
Insert(file, history, insert_line, new_str) ==
    LET content == Val(file)
        lines == Split(content)
        new_lines == SubSeq(lines, 1, insert_line)
                         \o Split(ExpandTabs(new_str))
                         \o SubSeq(lines, insert_line + 1, Len(lines))
    IN  IF insert_line < 0 \/ insert_line > Len(lines)
            THEN Raises("ValidationError", "invalid insert line", file,
                        history)
        ELSE Returns("inserted", Some(Join(new_lines)),
                     Push(history, content))

\* EditTool._undo_edit
UndoEdit(file, history) ==
    IF ~HasHistory(history)
        THEN Raises("ValidationError", "no edit history", file, history)
    ELSE LET popped == Pop(history)
         IN  IF IsNone(popped.content)
                 THEN Raises("ValidationError", "no earlier version", file,
                             popped.history)
             ELSE Returns("undone", popped.content, popped.history)

\* the try block of EditTool.execute
EditBody(kwargs, file, history) ==
    LET command == Val(kwargs.command)
    IN  IF command = "view" THEN View(file, history)
        ELSE IF command = "create"
            THEN IF IsNone(kwargs.file_text) \/ Val(kwargs.file_text) = <<>>
                     THEN Raises("ValidationError", "file_text required",
                                 file, history)
                 ELSE Create(file, history, Val(kwargs.file_text))
        ELSE IF command = "str_replace"
            THEN IF IsNone(kwargs.old_str) \/ Val(kwargs.old_str) = <<>>
                     THEN Raises("ValidationError", "old_str required", file,
                                 history)
                 ELSE StrReplace(file, history, Val(kwargs.old_str),
                                 IF IsNone(kwargs.new_str)
                                     \/ Val(kwargs.new_str) = <<>>
                                 THEN <<>> ELSE Val(kwargs.new_str))
        ELSE IF command = "insert"
            THEN IF IsNone(kwargs.insert_line)
                     THEN Raises("ValidationError", "insert_line required",
                                 file, history)
                 ELSE IF IsNone(kwargs.new_str)
                     THEN Raises("ValidationError", "new_str required", file,
                                 history)
                 ELSE Insert(file, history, Val(kwargs.insert_line),
                             Val(kwargs.new_str))
        ELSE UndoEdit(file, history)

\* EditTool.execute: every exception becomes an error result
EditExecute(kwargs, file, history) ==
    LET body == EditBody(kwargs, file, history)
    IN  IF IsNone(body.exception) THEN body
        ELSE Outcome(None, Some(ErrorResult(Val(body.exception).message)),
                     body.file, body.history)

\* BaseTool.__call__ of the edit tool: validate_params, then execute
EditToolCall(kwargs, file, history) ==
    LET invalid == EditValidateParams(kwargs, file)
    IN  IF ~IsNone(invalid)
            THEN Outcome(None, Some(ErrorResult(Val(invalid))), file, history)
        ELSE EditExecute(kwargs, file, history)

\* the arguments tried
EditInputs ==
    {EditInput(None, None, None, None, None),
     EditInput(Some("view"), None, None, None, None),
     EditInput(Some("undo_edit"), None, None, None, None),
     EditInput(Some("create"), None, None, None, None),
     EditInput(Some("create"), Some(<<"a">>), None, None, None),
     EditInput(Some("str_replace"), None, None, Some(<<"b">>), None),
     EditInput(Some("str_replace"), None, Some(<<"a">>), None, None),
     EditInput(Some("str_replace"), None, Some(<<"a">>), Some(<<"b">>), None),
     EditInput(Some("str_replace"), None, Some(<<"\t">>), Some(<<"b">>), None),
     EditInput(Some("insert"), None, None, Some(<<"b">>), None),
     EditInput(Some("insert"), None, None, None, Some(1)),
     EditInput(Some("insert"), None, None, Some(<<"b">>), Some(-1)),
     EditInput(Some("insert"), None, None, Some(<<"b">>), Some(1)),
     EditInput(Some("insert"), None, None, Some(<<"b">>), Some(3))}

\* the file the session starts with: absent, or one of these texts
InitialFiles ==
    {None, Some(<<"a", "\n", "a">>), Some(<<"a", "b">>), Some(<<"\t", "a">>)}

\* EditTool.__init__: an empty history
EditInit ==
    /\ e_file \in InitialFiles
    /\ e_history = <<>>
    /\ e_log = <<>>
    /\ e_calls = 0
    /\ e_pending = <<>>
    /\ IdleExcept("edit")

\* the latest two entries of a log
Latest(log) == IF Len(log) <= 2 THEN log ELSE SubSeq(log, Len(log) - 1, Len(log))

\* one call of the tool, recorded with the state around it.  e_pending is
\* kept by the rule of a stack, independently of FileHistory: a str_replace
\* or insert that succeeds puts the content it found on top, a call of
\* undo_edit takes the top away.
EditCall(kwargs) ==
    /\ e_calls < MaxEdits
    /\ e_calls' = e_calls + 1
    /\ LET outcome == EditToolCall(kwargs, e_file, e_history)
           result == Val(outcome.result)
       IN  /\ e_file' = outcome.file
           /\ e_history' = outcome.history
           /\ e_log' = Latest(Append(e_log,
                  [command |-> kwargs.command,
                   is_success |-> IsSuccess(result),
                   before |-> e_file, after |-> outcome.file,
                   history_before |-> e_history,
                   history_after |-> outcome.history,
                   pending |-> e_pending]))
           /\ e_pending' =
                  IF kwargs.command \in {Some("str_replace"), Some("insert")}
                         /\ IsSuccess(result)
                      THEN e_pending \o <<Val(e_file)>>
                  ELSE IF kwargs.command = Some("undo_edit") /\ e_pending # <<>>
                      THEN [i \in 1..(Len(e_pending) - 1) |-> e_pending[i]]
                  ELSE e_pending
    /\ UNCHANGED notedit

EditNext == \E kwargs \in EditInputs : EditCall(kwargs)

EditSpec == EditInit /\ [][EditNext]_vars

----------------------------------------------------------------------------
(* tools/computer.py: the type and scroll branches of execute, one device  *)
(* call at a time.  A device call can raise; the calls before it have had  *)
(* their effect, the call itself and the calls after it have none.         *)

\* computer.py:280  repeat_times = max(1, repeat or 1)
RepeatTimes_unclamped(repeat) == IF IsNone(repeat) THEN 1 ELSE Val(repeat)

RepeatTimes(repeat) ==
    LET repeat_or_1 == IF TruthyInt(repeat) THEN Val(repeat) ELSE 1
    IN  IF repeat_or_1 > 1 THEN repeat_or_1 ELSE 1

\* computer.py:467-470  _chunks
Chunks(s, chunk_size) ==
    [i \in 1..((Len(s) + chunk_size - 1) \div chunk_size) |->
        SubSeq(s, (i - 1) * chunk_size + 1, Min(i * chunk_size, Len(s)))]

RECURSIVE Times(_, _)
Times(n, calls) == IF n <= 0 THEN <<>> ELSE calls \o Times(n - 1, calls)

RECURSIVE Flatten(_)
Flatten(seqs) == IF seqs = <<>> THEN <<>> ELSE Head(seqs) \o Flatten(Tail(seqs))

\* computer.py:321-329  the device calls of one chunk
ChunkCalls(chunk) ==
    <<[call |-> "paste"],
      [call |-> "copy", what |-> "chunk", chunk |-> chunk],
      [call |-> "hotkey", keys |-> <<"ctrl", "v">>],
      [call |-> "copy", what |-> "original_clipboard"]>>

\* computer.py:317-330  the device calls of type, take_screenshot included
TypeCalls(text, repeat_times, chunk_size) ==
    LET chunks == Chunks(text, chunk_size)
    IN  Times(repeat_times,
              Flatten([i \in 1..Len(chunks) |-> ChunkCalls(chunks[i])]))
        \o <<[call |-> "screenshot"]>>

\* computer.py:339-344  actual_amount
default_amount == 400

ActualAmount(action, scroll_amount) ==
    LET amount == IF ~IsNone(scroll_amount) THEN Val(scroll_amount)
                  ELSE default_amount
        magnitude == IF amount < 0 THEN -amount ELSE amount
    IN  IF action = "scroll_down" THEN -magnitude ELSE magnitude

\* computer.py:337-350  the device calls of scroll_up and scroll_down
ScrollCalls(action, scroll_amount, repeat_times) ==
    Times(repeat_times,
          <<[call |-> "scroll", amount |-> ActualAmount(action, scroll_amount)]>>)
    \o <<[call |-> "screenshot"]>>

\* the device calls execute makes for the action, if none of them raises
Program(kwargs, chunk_size) ==
    IF kwargs.action = "type"
    THEN TypeCalls(Val(kwargs.text), RepeatTimes(kwargs.repeat), chunk_size)
    ELSE ScrollCalls(kwargs.action, kwargs.scroll_amount,
                     RepeatTimes(kwargs.repeat))

\* the clipboard after the first n calls of a program: paste reads it into
\* original_clipboard, copy writes the chunk or original_clipboard to it
RECURSIVE ClipboardAfter(_, _, _, _)
ClipboardAfter(program, n, clipboard, original_clipboard) ==
    IF n = 0 THEN clipboard
    ELSE LET c == Head(program)
         IN  IF c.call = "paste"
                 THEN ClipboardAfter(Tail(program), n - 1, clipboard, clipboard)
             ELSE IF c.call = "copy"
                 THEN ClipboardAfter(Tail(program), n - 1,
                          IF c.what = "chunk" THEN c.chunk
                          ELSE original_clipboard,
                          original_clipboard)
             ELSE ClipboardAfter(Tail(program), n - 1, clipboard,
                                 original_clipboard)

\* computer.py:330-335, 350  what execute returns when no call raised
ActionResult(kwargs, base64_image) ==
    IF kwargs.action = "type"
    THEN ToolResult(Some(Times(RepeatTimes(kwargs.repeat), Val(kwargs.text))),
                    Some(""), Some(base64_image), None)
    ELSE ToolResult(None, None, Some(base64_image), None)

\* the arguments tried
TypedTexts == {<<"a">>, <<"a", "b">>, <<"a", "b", "c">>}
Repeats == {None} \cup {Some(n) : n \in -1..MaxRepeat}
ScrollAmounts == {None, Some(0), Some(5), Some(-5)}
GroupSizes == {1, 2, 50}
Clipboards == {<<>>, <<"x">>}

ActionInput(action, text, scroll_amount, repeat) ==
    [action |-> action, text |-> text, scroll_amount |-> scroll_amount,
     repeat |-> repeat]

DeviceInputs ==
    {ActionInput("type", Some(text), None, repeat) :
        text \in TypedTexts, repeat \in Repeats}
    \cup {ActionInput(action, None, scroll_amount, repeat) :
             action \in {"scroll_up", "scroll_down"},
             scroll_amount \in ScrollAmounts, repeat \in Repeats}

DeviceInit ==
    /\ d_kwargs \in DeviceInputs
    /\ d_group_size \in GroupSizes
    /\ d_clipboard \in Clipboards
    /\ d_original = d_clipboard
    /\ d_calls = <<>>
    /\ d_result = ToolResult(None, None, None, None)
    /\ d_pc = "input"
    /\ IdleExcept("device")

\* computer.py:282-389 under BaseTool.__call__: the action runs until its
\* first device call that raises (fail_at; 0 when none does); the exception
\* comes back as an error result
RunAction(fail_at) ==
    /\ d_pc = "input"
    /\ LET program == Program(d_kwargs, d_group_size)
           completed == IF fail_at = 0 THEN Len(program) ELSE fail_at - 1
       IN  /\ fail_at <= Len(program)
           /\ d_calls' = SubSeq(program, 1, completed)
           /\ d_clipboard' = ClipboardAfter(program, completed, d_clipboard,
                                            d_clipboard)
           /\ d_result' = IF fail_at = 0
                          THEN ActionResult(d_kwargs, "shot")
                          ELSE ErrorResult("tool execution error")
    /\ d_pc' = "done"
    /\ UNCHANGED <<d_kwargs, d_group_size, d_original, notdevice>>

\* the longest program: three characters typed MaxRepeat times in chunks of
\* one, four calls a chunk, and the screenshot
MaxDeviceCalls == 3 * 4 * MaxRepeat + 1

DeviceNext == \E fail_at \in 0..MaxDeviceCalls : RunAction(fail_at)

DeviceSpec == DeviceInit /\ [][DeviceNext]_vars

----------------------------------------------------------------------------
(* tools/browser.py: BrowserTool, the click action.  The keyword arguments *)
(* are a record of Optionals: None for a key that is not given, Some(v)    *)
(* for a key given with value v; selector_attrs is "" for an empty dict.   *)

Given(kwargs, key) == ~IsNone(kwargs[key])

\* kwargs.get(key) is truthy
Get(kwargs, key) == TruthyStr(kwargs[key])

valid_selector_types ==
    {"button", "a", "input", "select", "textarea", "form", "div", "span",
     "custom"}

\* browser.py:869-872  allowed_params["click"], the action apart
ClickParams == {"selector", "target_text", "selector_type", "selector_attrs"}

ParamNames == ClickParams \cup {"url"}

\* browser.py:852-881, 941-962  validate_params for action = "click": the
\* message of the ValidationError, None when the request is accepted
BrowserValidateParams(kwargs) ==
    LET has_selector == Given(kwargs, "selector")
        has_text_selector ==
            Given(kwargs, "target_text") /\ Given(kwargs, "selector_type")
    IN  IF \E key \in ParamNames \ ClickParams : Given(kwargs, key)
            THEN Some("parameters not supported by click")
        ELSE IF ~has_selector /\ ~has_text_selector
            THEN Some("click needs selector or target_text with selector_type")
        ELSE IF has_selector /\ has_text_selector
            THEN Some("selector and the text form both given")
        ELSE IF has_text_selector
            THEN IF Val(kwargs.selector_type) \notin valid_selector_types
                     THEN Some("unsupported element type")
                 ELSE IF Val(kwargs.selector_type) = "custom"
                     THEN IF ~Get(kwargs, "selector_attrs")
                              THEN Some("custom needs selector_attrs")
                          ELSE None
                 ELSE IF Given(kwargs, "selector_attrs")
                     THEN Some("selector_attrs not allowed")
                 ELSE None
        ELSE None

\* browser.py:730-737  the selector names a link by its href
IsHrefSelector(selector) == selector = "a[href='u']"

ClickReturns(located) ==
    [exception |-> None, located |-> Some(located),
     result |-> ToolResult(Some("clicked"), None, None, None)]

ClickRaises(class, message) ==
    [exception |-> Some(Exception(class, message)), located |-> None,
     result |-> ToolResult(None, None, None, None)]

\* browser.py:723-801  the click branch of execute
ClickBody(kwargs, page) ==
    IF ~Get(kwargs, "selector")
        THEN ClickRaises("ValidationError", "no selector given")
    ELSE IF IsHrefSelector(Val(kwargs.selector)) THEN ClickReturns("href")
    ELSE IF Get(kwargs, "target_text")
        THEN IF ~Get(kwargs, "selector_type") /\ ~Get(kwargs, "selector_attrs")
                 THEN ClickRaises("ValidationError",
                             "text needs selector_type or selector_attrs")
             ELSE IF Get(kwargs, "selector_type")
                     /\ Val(kwargs.selector_type) = "custom"
                     /\ ~Get(kwargs, "selector_attrs")
                 THEN ClickRaises("ValidationError", "custom needs selector_attrs")
             ELSE IF ~page.found
                 THEN ClickRaises("ToolError", "no element with the text")
             ELSE IF ~page.unique
                 THEN ClickRaises("ToolError", "no unique selector")
             ELSE IF ~page.clickable
                 THEN ClickRaises("ToolError", "no clickable element")
             ELSE ClickReturns("text")
    ELSE IF ~page.clickable THEN ClickRaises("ToolError", "no clickable element")
    ELSE ClickReturns("selector")

\* browser.py:580-587, 838-840  execute: whatever the branch raises is raised
\* again as ToolError
BrowserExecute(kwargs, page) ==
    LET body == ClickBody(kwargs, page)
    IN  IF IsNone(body.exception) THEN body
        ELSE ClickRaises("ToolError",
                    "browser operation failed: " \o Val(body.exception).message)

\* base.py:53-69  BaseTool.__call__ of the browser tool
BrowserToolCall(kwargs, page) ==
    LET invalid == BrowserValidateParams(kwargs)
    IN  IF ~IsNone(invalid)
            THEN [accepted |-> FALSE, located |-> None,
                  result |-> ErrorResult("parameter validation error: "
                                         \o Val(invalid))]
        ELSE LET outcome == BrowserExecute(kwargs, page)
             IN  [accepted |-> TRUE, located |-> outcome.located,
                  result |-> IF IsNone(outcome.exception) THEN outcome.result
                             ELSE ErrorResult("tool execution error: "
                                      \o Val(outcome.exception).message)]

\* the requests tried
ClickInputs ==
    [selector : {None, Some(""), Some("#id"), Some("a[href='u']")},
     target_text : {None, Some(""), Some("OK")},
     selector_type : {None, Some("button"), Some("custom"), Some("table")},
     selector_attrs : {None, Some(""), Some("class=x")},
     url : {None, Some("u")}]

Pages == [found : BOOLEAN, unique : BOOLEAN, clickable : BOOLEAN]

BrowserInit ==
    /\ b_kwargs \in ClickInputs
    /\ b_page \in Pages
    /\ b_accepted = FALSE
    /\ b_located = None
    /\ b_result = ToolResult(None, None, None, None)
    /\ b_pc = "input"
    /\ IdleExcept("browser")

BrowserClick ==
    /\ b_pc = "input"
    /\ LET call == BrowserToolCall(b_kwargs, b_page)
       IN  /\ b_accepted' = call.accepted
           /\ b_located' = call.located
           /\ b_result' = call.result
    /\ b_pc' = "called"
    /\ UNCHANGED <<b_kwargs, b_page, notbrowser>>

BrowserNext == BrowserClick

BrowserSpec == BrowserInit /\ [][BrowserNext]_vars

----------------------------------------------------------------------------
(* Vocabulary of the retention-filter properties *)

RECURSIVE FlatBlocks(_)
\* the content blocks of the list-content messages of a history, in turn order
FlatBlocks(history) ==
    IF history = <<>> THEN <<>>
    ELSE (IF Head(history).content.kind = "list"
          THEN Head(history).content.list ELSE <<>>) \o FlatBlocks(Tail(history))

IsImage(b) == b.type = "image_url"
IsOther(b) == b.type # "image_url"
ImagesOf(history) == SelectSeq(FlatBlocks(history), IsImage)
NumImages(history) == Len(ImagesOf(history))
Range(s) == {s[k] : k \in 1..Len(s)}

Filtered == f_pc = "filtered"
FilterActive == ~IsNone(f_keep) /\ Val(f_keep) >= 1

\* message i of the input held at least one image block, nothing else, and
\* none of its image blocks is in the result
Emptied(i) ==
    /\ f_messages[i].content.kind = "list"
    /\ f_messages[i].content.list # <<>>
    /\ \A b \in Range(f_messages[i].content.list) :
          IsImage(b) /\ b \notin Range(ImagesOf(f_result))
NumEmptied == Cardinality({i \in 1..Len(f_messages) : Emptied(i)})

\* C5 (as stated): for every limit n >= 0 the filtered history holds exactly
\* min(k, n) image blocks, k being the number of image blocks of the input.
C5_Original ==
    (Filtered /\ ~IsNone(f_keep) /\ Val(f_keep) >= 0)
        => NumImages(f_result) = Min(NumImages(f_messages), Val(f_keep))

\* C5 (amended): for every limit n >= 1 the filtered history holds exactly
\* min(k, n) image blocks, hence never more than n; for n = 0 the filter is
\* disabled and all k image blocks remain.
C5_ImageCount ==
    /\ (Filtered /\ FilterActive)
          => /\ NumImages(f_result) = Min(NumImages(f_messages), Val(f_keep))
             /\ NumImages(f_result) <= Val(f_keep)
    /\ (Filtered /\ f_keep = Some(0))
          => NumImages(f_result) = NumImages(f_messages)

C5_Witness ==
    /\ Filtered
    /\ f_keep = Some(2)
    /\ NumImages(f_messages) = 3
    /\ NumImages(f_result) = 2

\* C6: whenever an image block is kept, every image block that comes later
\* in the history (later message, or later in the same message) is kept too.
C6_MostRecentKept ==
    Filtered =>
        LET imgs == ImagesOf(f_messages)
            kept == Range(ImagesOf(f_result))
        IN \A p, q \in 1..Len(imgs) : (p < q /\ imgs[p] \in kept) => imgs[q] \in kept

\* C7: every non-image block survives verbatim, the messages and the blocks
\* of each message keep their relative order, and a message whose content is
\* not a block list passes through unchanged.
C7_OthersPreserved ==
    Filtered =>
        /\ SelectSeq(FlatBlocks(SelectSeq(f_result, LAMBDA m : m # PlaceholderMessage)),
                     IsOther)
              = SelectSeq(FlatBlocks(f_messages), IsOther)
        /\ SelectSeq(f_result, LAMBDA m : m.content.kind = "str")
              = SelectSeq(f_messages, LAMBDA m : m.content.kind = "str")
        /\ Len(f_result) = Len(f_messages)
              => \A i \in 1..Len(f_messages) :
                    \/ f_result[i] = f_messages[i]
                    \/ /\ f_result[i] = PlaceholderMessage
                       /\ f_messages[i].content.kind = "list"
                    \/ /\ f_messages[i].content.kind = "list"
                       /\ f_result[i].role = f_messages[i].role
                       /\ f_result[i].content.kind = "list"
                       /\ f_result[i].content.list =
                             SelectSeq(f_messages[i].content.list,
                                       LAMBDA b : b \in Range(f_result[i].content.list))

C7_Witness ==
    /\ Filtered
    /\ FilterActive
    /\ \E i \in 1..Len(f_messages) :
          /\ f_messages[i].content.kind = "list"
          /\ Len(f_messages[i].content.list) = 2
          /\ f_result[i].content.list = SelectSeq(f_messages[i].content.list, IsOther)
          /\ Len(f_result[i].content.list) = 1
    /\ \E i \in 1..Len(f_messages) : f_messages[i].content.kind = "str"

\* C8: with keep <= 0 the filter returns the input history unchanged, every
\* image block still present.
C8_NonPositiveKeepIsNoOp ==
    (Filtered /\ ~IsNone(f_keep) /\ Val(f_keep) <= 0) => f_result = f_messages

C8_Witness ==
    /\ Filtered
    /\ f_keep = Some(0)
    /\ NumImages(f_messages) >= 2
    /\ NumImages(f_result) = NumImages(f_messages)

\* C9 (as stated): a message whose content became empty because the filter
\* removed its image blocks is dropped, so the result holds one message fewer
\* for each such message.
C9_Original ==
    (Filtered /\ FilterActive) => Len(f_result) = Len(f_messages) - NumEmptied

\* C9 (amended): a message whose content became empty because the filter
\* removed its image blocks is replaced, at its position, by the placeholder
\* user message with the single text block "ignore this"; the result holds as
\* many messages as the input.
C9_EmptiedReplaced ==
    (Filtered /\ FilterActive) =>
        /\ Len(f_result) = Len(f_messages)
        /\ \A i \in 1..Len(f_messages) : Emptied(i) => f_result[i] = PlaceholderMessage

C9_Witness ==
    /\ Filtered
    /\ FilterActive
    /\ \E i \in 1..Len(f_messages) : Emptied(i) /\ f_result[i] = PlaceholderMessage
    /\ Len(f_result) = Len(f_messages)

----------------------------------------------------------------------------
(* Vocabulary of the sampling-loop properties *)

IsToolUse(b) == b.type = "tool_use"
\* the tool-use blocks of the current response, in the order emitted
ToolUses == SelectSeq(response_params, IsToolUse)
ToolUseIds == [k \in 1..Len(ToolUses) |-> ToolUses[k].id]
\* the last n messages of the history
LastMessages(n) == SubSeq(messages, Len(messages) - n + 1, Len(messages))
\* the loop was left by an exception that came out of tool_collection.run
RaisedByToolRun == pc = "RAISED" /\ IsNone(call_failure)

\* C1: when the model call fails at the transport level the loop does not
\* raise: it reports the error through api_response_callback and returns the
\* history that was sent to the call, nothing appended.
C1_TransportFailureReported ==
    (~IsNone(call_failure) /\ Val(call_failure) \in TransportFailures) =>
        /\ IsNone(raised)
        /\ pc = "ABORTED"
        /\ returned = Some(sent_messages)
        /\ trace # <<>>
        /\ trace[Len(trace)].cb = "api_response"
        /\ ~IsNone(trace[Len(trace)].error)

\* C2: ToolCollection.run never raises to its caller, whatever tool name and
\* tool input the model emits: each failure comes back as a ToolResult with
\* its error field set.
C2_RunNeverRaises ==
    pc = "RUNNING_TOOL" =>
        \A device_ok \in BOOLEAN :
            LET content_block == response_params[block_index]
                run == ToolCollectionRun(content_block.name, content_block.input,
                                         device_ok, Base64Image(iteration, block_index))
            IN /\ IsNone(run.exception)
               /\ (content_block.name \notin RegisteredTools \/ ~device_ok)
                     => ~IsNone(run.result.error)

\* C3: the loop ends as DONE, after a response without tool-use block, or as
\* ABORTED, after a failed model call, and in no other way; no tool outcome
\* ends it.
C3_EndsDoneOrAborted ==
    /\ pc \in {"AWAITING_MODEL", "CALLING", "DISPATCHING", "RUNNING_TOOL",
               "DONE", "ABORTED"}
    /\ pc = "DONE" => (ToolUses = <<>> /\ ~IsNone(returned))
    /\ pc = "ABORTED" => (~IsNone(call_failure) /\ ~IsNone(returned))

\* C4: the tool-use blocks of a response run one at a time in the order
\* emitted (a tool starts only when every earlier one has returned its
\* result), and the tool-role messages appended are in that same order.
C4_ToolsInResponseOrder ==
    LET runs == SelectSeq(trace, LAMBDA e : e.cb \in {"run", "ran"})
        results == [k \in 1..Len(tool_result_content) |->
                        tool_result_content[k].tool_use_id]
    IN
    /\ pc \in {"DISPATCHING", "RUNNING_TOOL"} =>
          /\ \A k \in 1..Len(runs) :
                /\ runs[k].cb = (IF k % 2 = 1 THEN "run" ELSE "ran")
                /\ runs[k].id = ToolUseIds[(k + 1) \div 2]
          /\ results = SubSeq(ToolUseIds, 1, Len(results))
          /\ pc = "RUNNING_TOOL" =>
                /\ Len(runs) = 2 * Len(results) + 1
                /\ response_params[block_index].id = ToolUseIds[Len(results) + 1]
    /\ (pc = "AWAITING_MODEL" /\ ToolUses # <<>>) =>
          LET tool_messages == SubSeq(LastMessages(Len(ToolUses) + 1), 1, Len(ToolUses))
          IN \A k \in 1..Len(ToolUses) :
                /\ tool_messages[k].role = "tool"
                /\ tool_messages[k].tool_call_id = ToolUseIds[k]

C4_Witness ==
    /\ pc = "AWAITING_MODEL"
    /\ Len(ToolUses) = 2
    /\ LastMessages(3)[1].role = "tool"
    /\ LastMessages(3)[1].tool_call_id = ToolUseIds[1]
    /\ LastMessages(3)[2].tool_call_id = ToolUseIds[2]
    /\ ToolUseIds[1] # ToolUseIds[2]

\* C10: after a response with m >= 1 tool-use blocks the loop appends, behind
\* the model's message, exactly m tool-role messages, one per result in block
\* order, then exactly one user-role message whose content is the content of
\* the last tool result, before it makes the next model call.
C10_ResultsFolded ==
    LET m == Len(ToolUses) IN
    (m >= 1 /\ (pc = "AWAITING_MODEL" \/ RaisedByToolRun)) =>
        /\ Len(messages) >= m + 2
        /\ Len(tool_result_content) = m
        /\ LET tail == LastMessages(m + 2) IN
           /\ tail[1].role = "assistant"
           /\ \A k \in 1..m :
                 /\ tail[k + 1].role = "tool"
                 /\ tail[k + 1].tool_call_id = ToolUseIds[k]
           /\ tail[m + 2].role = "user"
           /\ tail[m + 2].content = tool_result_content[m].content

----------------------------------------------------------------------------
(* Vocabulary of the round-trip properties of the loop *)

\* the response in hand is exactly one tool_use, computer / screenshot, and
\* its run succeeded with an image and no error
ScreenshotRoundTrip ==
    /\ Len(ToolUses) = 1
    /\ ToolUses[1].name = "computer"
    /\ ToolUses[1].input.json = "object"
    /\ ToolUses[1].input.action = Some("screenshot")
    /\ Len(tool_result_content) = 1
    /\ ~tool_result_content[1].tool_result.is_error
    /\ tool_result_content[1].content.kind = "list"
    /\ \E b \in Range(tool_result_content[1].content.list) : IsImage(b)

\* the results of the response in hand have been folded into the history
Folded == pc = "AWAITING_MODEL" /\ tool_result_content # <<>>
\* the first call after a response with tool calls is in flight
NextCallInFlight == pc = "CALLING" /\ iteration = 2

\* C11 (as stated): after the screenshot round trip the history at the next
\* model call is two messages longer than the history the round trip began
\* with.
C11_Original ==
    /\ (ScreenshotRoundTrip /\ Folded) => Len(messages) = Len(sent_messages) + 2
    /\ (ScreenshotRoundTrip /\ NextCallInFlight)
          => Len(sent_messages) = Len(InitialHistory) + 2

\* C11 (amended): after the screenshot round trip the history at the next
\* model call is three messages longer than the history the round trip began
\* with: the model's message, one tool-role message for the call, and one
\* user-role message that carries the screenshot.
C11_ScreenshotRoundTrip ==
    /\ (ScreenshotRoundTrip /\ Folded)
          => /\ Len(messages) = Len(sent_messages) + 3
             /\ LastMessages(3)[1].role = "assistant"
             /\ LastMessages(3)[2].role = "tool"
             /\ LastMessages(3)[2].tool_call_id = ToolUseIds[1]
             /\ LastMessages(3)[3].role = "user"
             /\ LastMessages(3)[3].content = tool_result_content[1].content
    /\ (ScreenshotRoundTrip /\ NextCallInFlight)
          => Len(sent_messages) = Len(InitialHistory) + 3

C11_Witness ==
    /\ ScreenshotRoundTrip
    /\ NextCallInFlight
    /\ Len(sent_messages) = Len(InitialHistory) + 3
    /\ sent_messages[Len(sent_messages)].role = "user"
    /\ sent_messages[Len(sent_messages)].content.kind = "list"

\* C12: for every tool call of a response whose result has its error set,
\* also one that is not the last of the response, the history sent to the
\* next model call holds a tool-role entry for the id of that call flagged
\* is_error = true, and the text of that error.
C12_ErrorsReachModel ==
    NextCallInFlight =>
        \A k \in 1..Len(tool_result_content) :
            tool_result_content[k].tool_result.is_error =>
                /\ \E i \in 1..Len(sent_messages) :
                      /\ sent_messages[i].role = "tool"
                      /\ sent_messages[i].tool_call_id = ToolUseIds[k]
                      /\ sent_messages[i].content =
                            StrContent(JsonDumpsToolResult(
                                [type |-> "tool_result",
                                 tool_use_id |-> ToolUseIds[k], is_error |-> TRUE]))
                /\ \E j \in 1..Len(sent_messages) :
                      sent_messages[j].content = tool_result_content[k].content

\* C13: a tool call whose name is not registered gets a ToolResult whose
\* error says that the tool was not found, whatever the input and the
\* device, and nothing is raised; the loop records it as an error result and
\* folds it into the history as a tool-role message flagged is_error = true.
C13_UnknownToolIsData ==
    /\ (pc = "RUNNING_TOOL" /\ response_params[block_index].name \notin {"computer"})
          => \A device_ok \in BOOLEAN :
                LET content_block == response_params[block_index]
                    run == ToolCollectionRun(content_block.name, content_block.input,
                                             device_ok, Base64Image(iteration, block_index))
                IN /\ IsNone(run.exception)
                   /\ run.result =
                        ToolResult(None, Some("tool " \o content_block.name \o " not found"),
                                   None, None)
    /\ pc \in {"DISPATCHING", "AWAITING_MODEL"}
          => \A k \in 1..Len(tool_result_content) :
                ToolUses[k].name \notin {"computer"} =>
                    /\ tool_result_content[k].tool_use_id = ToolUses[k].id
                    /\ tool_result_content[k].tool_result.is_error
                    /\ tool_result_content[k].content =
                          StrContent("tool " \o ToolUses[k].name \o " not found")
    /\ Folded
          => \A k \in 1..Len(ToolUses) :
                ToolUses[k].name \notin {"computer"} =>
                    LET m == LastMessages(Len(ToolUses) + 1)[k] IN
                    /\ m.role = "tool"
                    /\ m.tool_call_id = ToolUses[k].id
                    /\ m.content = StrContent(JsonDumpsToolResult(
                                      [type |-> "tool_result",
                                       tool_use_id |-> ToolUses[k].id,
                                       is_error |-> TRUE]))

C13_Witness ==
    /\ Folded
    /\ Len(ToolUses) = 2
    /\ ToolUses[1].name = "bash"
    /\ tool_result_content[1].content = StrContent("tool bash not found")
    /\ LastMessages(3)[1].tool_call_id = ToolUses[1].id
    /\ ~tool_result_content[2].tool_result.is_error

----------------------------------------------------------------------------
(* Vocabulary of the properties of one call of the computer tool *)

Called == t_pc = "called"
ActionIs(actions) == ~IsNone(t_kwargs.action) /\ Val(t_kwargs.action) \in actions
TextPresent == ~IsNone(t_kwargs.text)
CoordinatePresent == ~IsNone(t_kwargs.coordinate)
\* the result is the report of a ValidationError raised by validate_params
RejectedByValidation ==
    t_result \in
        {ToolResult(None, Some("parameter validation error: " \o a \o m), None, None) :
            a \in Actions,
            m \in {" needs text", " takes no coordinate", " needs coordinate",
                   " takes no text"}}
\* the result reports an error of whatever class
Refused == ~IsNone(t_result.error) /\ Val(t_result.error) # ""
PointerCalls == {"moveTo", "dragTo", "click"}
NoPointerCall == \A k \in 1..Len(t_device_calls) : t_device_calls[k] \notin PointerCalls
\* a 2-tuple of non-negative numbers
WellFormedCoordinate(c) == Len(c) = 2 /\ \A k \in 1..2 : c[k] >= 0

\* C14: a call with action key or type and text missing or coordinate
\* present, and a call with action mouse_move or left_click_drag and
\* coordinate missing or text present, ends in a validation error with no
\* device call performed.
C14_RejectedBeforeDevice ==
    (/\ Called
     /\ \/ ActionIs({"key", "type"}) /\ (~TextPresent \/ CoordinatePresent)
        \/ ActionIs({"mouse_move", "left_click_drag"})
              /\ (~CoordinatePresent \/ TextPresent))
        => RejectedByValidation /\ t_device_calls = <<>>

\* C15: a call of mouse_move, left_click_drag or one of the four click
\* actions with a coordinate that is not a 2-tuple of non-negative numbers
\* is refused with an error, and no pointer call is performed.
C15_CoordinateChecked ==
    (/\ Called
     /\ ActionIs({"mouse_move", "left_click_drag", "left_click", "right_click",
                  "middle_click", "double_click"})
     /\ CoordinatePresent
     /\ ~WellFormedCoordinate(Val(t_kwargs.coordinate)))
        => Refused /\ NoPointerCall

----------------------------------------------------------------------------
(* Vocabulary of the geometry properties *)

Built == g_pc \in {"built", "mapped", "returned"}
Mapped == g_pc \in {"mapped", "returned"}
RoundTripped == g_pc = "returned"
\* at least one screen unit per logical unit on the axis: physical / logical
\* >= dpi_scale
XNotShrunk == g_physical[1] * 96 >= Val(g_target)[1] * g_dpi
YNotShrunk == g_physical[2] * 96 >= Val(g_target)[2] * g_dpi
\* s = trunc(num / den) for num >= 0, den > 0
IsTruncOf(s, num, den) == s * den <= num /\ num < (s + 1) * den

\* C16 (as stated): for every geometry and every integer logical point p,
\* screen_to_api(api_to_screen(p)) differs from p by at most 1 on each axis.
C16_Original ==
    RoundTripped =>
        /\ Abs(g_api[1] - g_point[1]) <= 1
        /\ Abs(g_api[2] - g_point[2]) <= 1

\* C16 (amended): on an axis with at least one screen unit per logical unit
\* (physical / logical >= dpiScale) the round trip returns p or p - 1 on that
\* axis; on an axis with fewer the round trip never exceeds p.
C16_RoundTrip ==
    RoundTripped =>
        /\ XNotShrunk => g_point[1] - g_api[1] \in {0, 1}
        /\ YNotShrunk => g_point[2] - g_api[2] \in {0, 1}
        /\ g_api[1] <= g_point[1]
        /\ g_api[2] <= g_point[2]

C16_Witness ==
    /\ RoundTripped
    /\ XNotShrunk
    /\ YNotShrunk
    /\ g_taskbar_offset = 40
    /\ g_dpi = 120
    /\ g_api[1] = g_point[1] - 1
    /\ g_api[2] = g_point[2]
    /\ g_point[2] > 0

\* C17: api_to_screen(x, y) is (trunc(x * physicalWidth / logicalWidth /
\* dpiScale), trunc(y * physicalHeight / logicalHeight / dpiScale) +
\* taskbarOffsetY); with dpiScale 1.25, offset 40, physical 1920x1080 and
\* logical 1366x768 the point (100, 100) maps to (112, 152).
C17_ApiToScreen ==
    Mapped =>
        /\ IsTruncOf(g_screen[1], g_point[1] * g_physical[1] * 96,
                     Val(g_target)[1] * g_dpi)
        /\ IsTruncOf(g_screen[2] - g_taskbar_offset, g_point[2] * g_physical[2] * 96,
                     Val(g_target)[2] * g_dpi)
        /\ (/\ g_physical = <<1920, 1080>>
            /\ g_dpi = 120
            /\ g_taskbar_offset = 40
            /\ g_point = <<100, 100>>)
              => g_target = Some(<<1366, 768>>) /\ g_screen = <<112, 152>>

C17_Witness ==
    /\ Mapped
    /\ g_physical = <<1920, 1080>>
    /\ g_target = Some(<<1366, 768>>)
    /\ g_dpi = 120
    /\ g_taskbar_offset = 40
    /\ g_point = <<100, 100>>
    /\ g_screen = <<112, 152>>

\* is the ratio of preset a strictly closer to the physical ratio than that
\* of preset b?
StrictlyCloser(a, b) ==
    Abs(a.width * g_physical[2] - g_physical[1] * a.height) * b.height
        < Abs(b.width * g_physical[2] - g_physical[1] * b.height) * a.height

\* C18: the logical resolution chosen at construction is an entry of the
\* preset table; no preset is strictly closer in width/height ratio to the
\* physical ratio, and every preset listed before it is strictly farther.
C18_NearestPreset ==
    Built =>
        \E k \in 1..Len(SCALING_TARGETS) :
            /\ g_target = Some(<<SCALING_TARGETS[k].width, SCALING_TARGETS[k].height>>)
            /\ \A j \in 1..Len(SCALING_TARGETS) :
                  ~StrictlyCloser(SCALING_TARGETS[j], SCALING_TARGETS[k])
            /\ \A j \in 1..(k - 1) :
                  StrictlyCloser(SCALING_TARGETS[k], SCALING_TARGETS[j])

\* a tie: 1550 / 1000 is as far from 16:10 as from 3:2; the first is chosen
C18_Witness ==
    /\ Built
    /\ g_physical = <<1550, 1000>>
    /\ ~StrictlyCloser(SCALING_TARGETS[1], SCALING_TARGETS[4])
    /\ ~StrictlyCloser(SCALING_TARGETS[4], SCALING_TARGETS[1])
    /\ g_target = Some(<<1280, 800>>)

----------------------------------------------------------------------------
(* Vocabulary of the screenshot properties *)

Taken == s_pc = "taken"
WithinBudget(k) == s_sizes[k] <= 5 * 1024 * 1024
SomeLevelFits == \E k \in 1..4 : WithinBudget(k)

\* C19: take_screenshot runs the encoders full, half, full grayscale, half
\* grayscale in that order and returns the first level whose encoded size is
\* <= MAX_IMAGE_SIZE, running no later encoder; when no level fits it returns
\* the last level although it exceeds the limit.
C19_CompressionCascade ==
    Taken =>
        /\ CompressionLevels = <<"png", "half_png", "gray_png", "half_gray_png">>
        /\ SomeLevelFits
              => /\ WithinBudget(s_chosen)
                 /\ \A j \in 1..(s_chosen - 1) : ~WithinBudget(j)
                 /\ s_evaluated = [k \in 1..s_chosen |-> k]
        /\ ~SomeLevelFits
              => /\ s_chosen = 4
                 /\ ~WithinBudget(s_chosen)
                 /\ s_evaluated = <<1, 2, 3, 4, 4>>

C19_Witness ==
    /\ Taken
    /\ ~WithinBudget(1)
    /\ s_sizes[2] = 5 * 1024 * 1024
    /\ WithinBudget(3)
    /\ s_chosen = 2
    /\ s_evaluated = <<1, 2>>

----------------------------------------------------------------------------
(* Vocabulary of the icon-snapping properties *)

Clicked == i_pc = "clicked"
CenterOf(k) ==
    <<(IF i_target[1] > 128 THEN i_target[1] - 128 ELSE 0)
          + i_boxes[k].x + i_boxes[k].w \div 2,
      (IF i_target[2] > 128 THEN i_target[2] - 128 ELSE 0)
          + i_boxes[k].y + i_boxes[k].h \div 2>>
SquaredDistanceOf(k) ==
    (CenterOf(k)[1] - i_target[1]) * (CenterOf(k)[1] - i_target[1])
    + (CenterOf(k)[2] - i_target[2]) * (CenterOf(k)[2] - i_target[2])
Admissible(k) ==
    /\ i_boxes[k].w \in 16..64
    /\ i_boxes[k].h \in 16..64
\* admissible boxes whose center is at most 5 px from the target
WithinTolerance == {k \in 1..Len(i_boxes) : Admissible(k) /\ SquaredDistanceOf(k) <= 25}
\* admissible boxes whose center is less than 5 px from the target
InsideTolerance == {k \in 1..Len(i_boxes) : Admissible(k) /\ SquaredDistanceOf(k) < 25}

C21_SuccessIffNoError ==
    Called =>
        /\ IsSuccess(t_result)
              <=> ~MakeApiToolResult(t_result, "call").tool_result.is_error
        /\ (t_device_ok /\ t_device_calls # <<>>) => IsSuccess(t_result)

----------------------------------------------------------------------------
(* Vocabulary of the edit-tool properties *)

Edits == {Some("create"), Some("str_replace"), Some("insert")}

LastCall == e_log[Len(e_log)]
CallBefore == e_log[Len(e_log) - 1]

\* the latest call is an undo_edit that directly follows a successful edit
UndoAfterEdit ==
    /\ Len(e_log) = 2
    /\ LastCall.command = Some("undo_edit")
    /\ CallBefore.command \in Edits
    /\ CallBefore.is_success

\* C22: an undo_edit that directly follows a successful create, str_replace
\* or insert of the path succeeds and leaves the path in the state it had
\* immediately before that edit.
C22_EveryEditUndoable ==
    UndoAfterEdit => LastCall.is_success /\ e_file = CallBefore.before

Top(stack) == stack[Len(stack)]

FailedEdit ==
    /\ e_log # <<>>
    /\ LastCall.command \in {Some("str_replace"), Some("insert")}
    /\ ~LastCall.is_success

----------------------------------------------------------------------------
(* Vocabulary of the retention property of the loop *)

RetentionEnabled ==
    ~IsNone(only_n_most_recent_images) /\ Val(only_n_most_recent_images) >= 1

\* a model call has been made in this run: sent_messages is its argument
CallMade == iteration >= 1

\* C23: with retention enabled and limit N >= 1, the history passed to each
\* model call of the loop holds at most N image blocks.
C23_LoopRetention ==
    (RetentionEnabled /\ CallMade)
        => NumImages(sent_messages) <= Val(only_n_most_recent_images)

\* the third call of a run whose two earlier passes each brought a
\* screenshot: the older one is gone from what is sent
C23_Witness ==
    /\ RetentionEnabled
    /\ iteration = 3
    /\ NumImages(sent_messages) = 1
    /\ \E i \in 1..Len(sent_messages) : sent_messages[i] = PlaceholderMessage

----------------------------------------------------------------------------
(* Vocabulary of the callback property of the loop *)

\* the callbacks a response calls for: output_callback for each block and,
\* for a tool-use block, the return of its tool and tool_output_callback with
\* its id before the next block is shown
RECURSIVE ExpectedCallbacks(_, _)
ExpectedCallbacks(blocks, k) ==
    IF k > Len(blocks) THEN <<>>
    ELSE <<[cb |-> "output", block |-> k]>>
         \o (IF blocks[k].type = "tool_use"
             THEN <<[cb |-> "ran", id |-> blocks[k].id],
                    [cb |-> "tool_output", id |-> blocks[k].id]>>
             ELSE <<>>)
         \o ExpectedCallbacks(blocks, k + 1)

IsCallback(e) == e.cb \in {"output", "ran", "tool_output"}
CallbacksOf(events) == SelectSeq(events, IsCallback)

\* the pass is over with the response of the model
ResponseHandled == pc \in {"DONE", "AWAITING_MODEL"} \/ RaisedByToolRun

\* C24: when a response has been handled, output_callback has been invoked
\* once per content block in response order and tool_output_callback once per
\* tool-use block with its id, after its tool returned and before the next
\* block's output_callback; a failed model call invokes neither.
C24_Callbacks ==
    /\ ResponseHandled => CallbacksOf(trace) = ExpectedCallbacks(response_params, 1)
    /\ ~IsNone(call_failure) => CallbacksOf(trace) = <<>>

----------------------------------------------------------------------------
(* Vocabulary of the properties of the type and scroll actions *)

ActionDone == d_pc = "done"
Typed == ActionDone /\ d_kwargs.action = "type"
Scrolled == ActionDone /\ d_kwargs.action \in {"scroll_up", "scroll_down"}
\* no device call raised: the action returned its own result
Returned == ActionDone /\ d_result.base64_image # None

\* C25: after a type action, whether it returned a result or failed part-way
\* through a chunk, the clipboard holds what it held before the action.
C25_ClipboardRestored == Typed => d_clipboard = d_original

IsScroll(c) == c.call = "scroll"
ScrollSteps == SelectSeq(d_calls, IsScroll)

\* m: the magnitude of scroll_amount, 400 when it is absent
Magnitude ==
    IF IsNone(d_kwargs.scroll_amount) THEN 400
    ELSE IF Val(d_kwargs.scroll_amount) < 0 THEN -Val(d_kwargs.scroll_amount)
    ELSE Val(d_kwargs.scroll_amount)

SignedAmounts ==
    \A k \in 1..Len(ScrollSteps) :
        ScrollSteps[k].amount = IF d_kwargs.action = "scroll_up" THEN Magnitude ELSE -Magnitude

----------------------------------------------------------------------------
(* Vocabulary of the browser click property *)

ClickCalled == b_pc = "called"

\* the two forms of a click request
SelectorForm ==
    /\ Given(b_kwargs, "selector")
    /\ \A key \in ParamNames \ {"selector"} : ~Given(b_kwargs, key)
TextForm ==
    /\ Given(b_kwargs, "target_text") /\ Given(b_kwargs, "selector_type")
    /\ ~Given(b_kwargs, "selector")

RejectedForMissingSelector ==
    b_result.error
        = Some("tool execution error: browser operation failed: no selector given")

\* C27: validate_params accepts a click request in exactly two forms,
\* selector alone or target_text with selector_type and no selector; a
\* request accepted in the text form is carried out by locating the element
\* through its text and is never rejected by execute for a missing selector.
C27_ClickForms ==
    (ClickCalled /\ b_accepted) =>
        /\ SelectorForm \/ TextForm
        /\ TextForm =>
              /\ ~RejectedForMissingSelector
              /\ IsSuccess(b_result) => b_located = Some("text")

----------------------------------------------------------------------------
(* Vocabulary of the tool registry property *)

NotFound(name) == StrContent("tool " \o name \o " not found")

\* C28: every tool name advertised in the request is registered in the
\* ToolCollection of the loop: a call to an advertised tool never comes back
\* as the tool-not-found error.
C28_AdvertisedRegistered ==
    \A k \in 1..Len(tool_result_content) :
        ToolUses[k].name \in AdvertisedTools
            => tool_result_content[k].content # NotFound(ToolUses[k].name)

----------------------------------------------------------------------------
(* Vocabulary of the tool-role message property *)

\* the tool-role messages appended for the current response
ToolRoleMessages ==
    IF pc = "AWAITING_MODEL" /\ ToolUses # <<>>
    THEN SubSeq(messages, Len(messages) - Len(tool_result_content),
                Len(messages) - 1)
    ELSE <<>>

\* C29: once a response with tool-use blocks has been handled, the history
\* holds one tool-role message per tool-use block, in block order, carrying
\* the block's id as tool_call_id and the block's tool name as name, so that
\* no block is left without its message and distinct ids stay distinct.
C29_ToolMessagesAnswerBlocks ==
    ((pc = "AWAITING_MODEL" /\ ToolUses # <<>>) \/ RaisedByToolRun) =>
        /\ Len(ToolRoleMessages) = Len(ToolUses)
        /\ \A k \in 1..Len(ToolUses) :
              /\ ToolRoleMessages[k].role = "tool"
              /\ ToolRoleMessages[k].tool_call_id = ToolUses[k].id
              /\ ToolRoleMessages[k].name = ToolUses[k].name

====
